---- MODULE Spec2Model ----
(***************************************************************************)
(* State-machine model of nexcrawl's html crate: the reference-counted DOM *)
(* (node.rs), the minimum-subtree extractor (minimum_dom_tree.rs), the     *)
(* selector engine (selector.rs) and the preprocessor (preprocess.rs).     *)
(*                                                                         *)
(* Nodes live in `heap`, a sequence of node records; a Handle is an index  *)
(* into it and the absent Option/Weak is None.  Strings are sequences of   *)
(* one-character strings so that tokenising and parsing are computed.      *)
(***************************************************************************)
EXTENDS Integers, Sequences, FiniteSets, TLC

\* ------------------------------------------------------------------ bounds
\* Largest number of nodes the tree-mutation specification allocates.
MaxNodes == 3
\* Longest sequence of calls the tree-mutation specification explores.
MaxCalls == 5
\* Longest text buffer the tree-mutation specification grows by coalescing.
MaxTextLen == 2
\* Longest strings t1 and t2 handed to is_subset.
MaxT1Len == 3
MaxT2Len == 5
\* Most nodes in a tree handed to the extractor.
MaxTreeNodes == 4
\* Most nodes in a generated tree handed to the selector engine.
MaxSelNodes == 4
\* Most nodes in a tree handed to the preprocessor.
MaxPreNodes == 4
\* Largest number of nodes the deep-copy specification allocates.
MaxCopyNodes == 5

VARIABLES
    heap,       \* node store: heap[h] is the Node behind Handle h
    panicked,   \* a call aborted (assert!/expect/panic!/BorrowMutError)
    last,       \* the last tree call made: its name, subject and return value
    calls,      \* number of tree calls made so far
    cache,      \* MinimumDomTree::cache, the extractor's memo
    args,       \* arguments of the extractor, selector or preprocessor call
    result      \* what that call returned

vars == <<heap, panicked, last, calls, cache, args, result>>

\* ------------------------------------------------------------ node.rs data
None == 0

Handles(h) == 1..Len(h)

\* NodeData, one record shape for every variant.
NodeData_Document ==
    [kind |-> "Document", name |-> <<>>, attrs |-> <<>>, text |-> <<>>,
     template_contents |-> None, mathml |-> FALSE]

NodeData_Text(text) ==
    [kind |-> "Text", name |-> <<>>, attrs |-> <<>>, text |-> text,
     template_contents |-> None, mathml |-> FALSE]

NodeData_Element(name, attrs, template_contents, mathml) ==
    [kind |-> "Element", name |-> name, attrs |-> attrs, text |-> <<>>,
     template_contents |-> template_contents, mathml |-> mathml]

\* Node::new: a parentless, childless node holding `data`.
Node_new(data) == [data |-> data, parent |-> None, children |-> <<>>]

\* NodeOrText<Handle>
AppendNode(node) == [isText |-> FALSE, node |-> node, text |-> <<>>]
AppendText(text) == [isText |-> TRUE, node |-> None, text |-> text]

\* Result of a call that may abort part-way: the heap as the call left it.
Ok(h) == [heap |-> h, panic |-> FALSE]
Panic(h) == [heap |-> h, panic |-> TRUE]

\* Vec::insert(i, x) and Vec::remove(i), i counted from 0 as in the source.
VecInsert(s, i, x) == SubSeq(s, 1, i) \o <<x>> \o SubSeq(s, i + 1, Len(s))
VecRemove(s, i) == SubSeq(s, 1, i) \o SubSeq(s, i + 2, Len(s))

\* Number of entries of child list s that are the node x (Rc::ptr_eq).
Occurrences(s, x) == Cardinality({i \in 1..Len(s) : s[i] = x})

\* ------------------------------------------------- node.rs free functions
\* append: "Append a parentless node to another nodes' children".  The parent
\* back-reference is replaced before the assertion is evaluated.
append(h, new_parent, child) ==
    LET previous_parent == h[child].parent
        h1 == [h EXCEPT ![child].parent = new_parent]
    IN  IF previous_parent # None
        THEN Panic(h1)
        ELSE Ok([h1 EXCEPT ![new_parent].children = Append(@, child)])

\* get_parent_and_index: the parent and the 0-based position of the first
\* entry of its child list that is `target`; panics when there is none.
get_parent_and_index(h, target) ==
    IF h[target].parent = None
    THEN [some |-> FALSE, parent |-> None, i |-> 0, panic |-> FALSE]
    ELSE LET parent == h[target].parent
             kids == h[parent].children
             found == {k \in 1..Len(kids) : kids[k] = target}
         IN  IF found = {}
             THEN [some |-> FALSE, parent |-> parent, i |-> 0, panic |-> TRUE]
             ELSE [some |-> TRUE, parent |-> parent,
                   i |-> (CHOOSE k \in found : \A m \in found : k <= m) - 1,
                   panic |-> FALSE]

\* append_to_existing_text: push onto prev's buffer when prev is a text node.
append_to_existing_text(h, prev, text) ==
    IF h[prev].data.kind = "Text"
    THEN [heap |-> [h EXCEPT ![prev].data.text = @ \o text], appended |-> TRUE]
    ELSE [heap |-> h, appended |-> FALSE]

\* Mutant of remove_from_parent: the entry is removed from the child list
\* but the parent back-reference is left in place.
remove_from_parent_keeps_back_reference(h, target) ==
    LET pi == get_parent_and_index(h, target)
    IN  IF pi.panic THEN Panic(h)
        ELSE IF ~pi.some THEN Ok(h)
        ELSE Ok([h EXCEPT ![pi.parent].children = VecRemove(@, pi.i)])

remove_from_parent(h, target) ==
    LET pi == get_parent_and_index(h, target)
    IN  IF pi.panic THEN Panic(h)
        ELSE IF ~pi.some THEN Ok(h)
        ELSE Ok([h EXCEPT ![pi.parent].children = VecRemove(@, pi.i),
                          ![target].parent = None])

\* ------------------------------------------------------ impl TreeSink for Dom
\* create_element: a template element owns a fresh Document node.
create_element(h, name, attrs, template, mathml) ==
    IF template
    THEN LET h1 == Append(h, Node_new(NodeData_Document))
         IN  Append(h1, Node_new(NodeData_Element(name, attrs, Len(h1), mathml)))
    ELSE Append(h, Node_new(NodeData_Element(name, attrs, None, mathml)))

\* Mutant of Dom::append: text is never coalesced into the last child.
Dom_append_without_coalescing(h, parent, child) ==
    IF child.isText
    THEN append(Append(h, Node_new(NodeData_Text(child.text))), parent, Len(h) + 1)
    ELSE append(h, parent, child.node)

Dom_append(h, parent, child) ==
    LET kids == h[parent].children
        t == IF child.isText /\ Len(kids) > 0
             THEN append_to_existing_text(h, kids[Len(kids)], child.text)
             ELSE [heap |-> h, appended |-> FALSE]
    IN  IF t.appended THEN Ok(t.heap)
        ELSE IF child.isText
        THEN append(Append(h, Node_new(NodeData_Text(child.text))), parent, Len(h) + 1)
        ELSE append(h, parent, child.node)

\* Mutant of append_before_sibling: the incoming node is inserted without
\* being detached from the parent it has.
Dom_append_before_sibling_without_detach(h, sibling, child) ==
    LET pi == get_parent_and_index(h, sibling)
    IN  IF pi.panic \/ ~pi.some THEN Panic(h)
        ELSE
        LET parent == pi.parent
            i == pi.i
            t == IF child.isText /\ i > 0
                 THEN append_to_existing_text(h, h[parent].children[i], child.text)
                 ELSE [heap |-> h, appended |-> FALSE]
        IN  IF t.appended THEN Ok(t.heap)
            ELSE
            LET h1 == IF child.isText
                      THEN Append(h, Node_new(NodeData_Text(child.text)))
                      ELSE h
                c == IF child.isText THEN Len(h) + 1 ELSE child.node
            IN  Ok([h1 EXCEPT ![c].parent = parent,
                              ![parent].children = VecInsert(@, i, c)])

Dom_append_before_sibling(h, sibling, child) ==
    LET pi == get_parent_and_index(h, sibling)
    IN  IF pi.panic \/ ~pi.some THEN Panic(h)
        ELSE
        LET parent == pi.parent
            i == pi.i
            t == IF child.isText /\ i > 0
                 THEN append_to_existing_text(h, h[parent].children[i], child.text)
                 ELSE [heap |-> h, appended |-> FALSE]
        IN  IF t.appended THEN Ok(t.heap)
            ELSE
            LET h1 == IF child.isText
                      THEN Append(h, Node_new(NodeData_Text(child.text)))
                      ELSE h
                c == IF child.isText THEN Len(h) + 1 ELSE child.node
                r == remove_from_parent(h1, c)
            IN  IF r.panic THEN Panic(r.heap)
                ELSE IF i > Len(r.heap[parent].children) THEN Panic(r.heap)
                ELSE Ok([r.heap EXCEPT ![c].parent = parent,
                                       ![parent].children = VecInsert(@, i, c)])

Dom_append_based_on_parent_node(h, element, prev_element, child) ==
    LET has_parent == h[element].parent # None
    IN  IF has_parent
        THEN Dom_append_before_sibling(h, element, child)
        ELSE Dom_append(h, prev_element, child)

Dom_remove_from_parent(h, target) == remove_from_parent(h, target)

\* The loop of reparent_children from its k-th child on: re-point the child,
\* then assert that its previous parent was `node`.
RECURSIVE reparent_loop(_, _, _, _)
reparent_loop(h, node, new_parent, k) ==
    IF k > Len(h[node].children) THEN Ok(h)
    ELSE LET child == h[node].children[k]
             previous_parent == h[child].parent
             h1 == [h EXCEPT ![child].parent = new_parent]
         IN  IF previous_parent # node
             THEN Panic(h1)
             ELSE reparent_loop(h1, node, new_parent, k + 1)

\* Mutant of reparent_children: the moved children are put before the
\* children new_parent has.
Dom_reparent_children_prepending(h, node, new_parent) ==
    IF node = new_parent THEN Panic(h)
    ELSE LET r == reparent_loop(h, node, new_parent, 1)
         IN  IF r.panic THEN r
             ELSE Ok([r.heap EXCEPT
                        ![new_parent].children = r.heap[node].children \o @,
                        ![node].children = <<>>])

\* reparent_children: both child lists are mutably borrowed first, which
\* panics when node and new_parent are the same node.
Dom_reparent_children(h, node, new_parent) ==
    IF node = new_parent THEN Panic(h)
    ELSE LET r == reparent_loop(h, node, new_parent, 1)
         IN  IF r.panic THEN r
             ELSE Ok([r.heap EXCEPT
                        ![new_parent].children = @ \o r.heap[node].children,
                        ![node].children = <<>>])

\* ---------------------------------------------------------- Node::deep_copy
\* The nodes reachable from the set S through child lists.
RECURSIVE ChildClosure(_, _)
ChildClosure(h, S) ==
    LET next == S \cup UNION {{h[m].children[k] : k \in 1..Len(h[m].children)} : m \in S}
    IN  IF next = S THEN S ELSE ChildClosure(h, next)

Descendants(h, n) ==
    ChildClosure(h, {h[n].children[k] : k \in 1..Len(h[n].children)})

\* A child-list cycle below n: deep_copy's recursion on it never returns.
HasCycle(h, n) == \E m \in {n} \cup Descendants(h, n) : m \in Descendants(h, m)

\* deep_copy: the new node is allocated first with a clone of the data (the
\* text buffer and the attribute list by value, the template_contents Option
\* by cloning the Handle it holds), then each child is copied in order and
\* its parent set to the new node.
RECURSIVE deep_copy(_, _), deep_copy_children(_, _, _, _, _)
deep_copy(h, n) ==
    LET new_node == Len(h) + 1
        h1 == Append(h, Node_new(h[n].data))
        r == deep_copy_children(h1, h[n].children, new_node, 1, <<>>)
    IN  [heap |-> [r.heap EXCEPT ![new_node].children = r.new_children],
         node |-> new_node]

deep_copy_children(h, children, new_node, k, new_children) ==
    IF k > Len(children) THEN [heap |-> h, new_children |-> new_children]
    ELSE LET c == deep_copy(h, children[k])
         IN  deep_copy_children([c.heap EXCEPT ![c.node].parent = new_node],
                                children, new_node, k + 1,
                                Append(new_children, c.node))

\* ------------------------------------------------- tree-mutation state machine
Str_div == <<"d", "i", "v">>
Str_a == <<"a">>

\* Text runs the parse driver hands to append / append_before_sibling.
TextArgs == {Str_a}

ChildArgs(h) == {AppendNode(n) : n \in Handles(h)} \cup {AppendText(t) : t \in TextArgs}

\* The record kept of a call: its name, the node it was made on, the node it
\* returned, and whether the node it was given already had a parent.
NoCall == [op |-> "none", x |-> None, ret |-> None, moved |-> FALSE]

\* No extractor, selector or preprocessor call is pending or has returned.
NoArgs == [op |-> "none"]
NoResult == [op |-> "none"]

Call(op, x, ret, moved) == [op |-> op, x |-> x, ret |-> ret, moved |-> moved]

\* Dom::default(): the document node alone.
Init ==
    /\ heap = <<Node_new(NodeData_Document)>>
    /\ panicked = FALSE
    /\ last = NoCall
    /\ calls = 0
    /\ cache = {}
    /\ args = NoArgs
    /\ result = NoResult

Returns(r, call) ==
    /\ calls < MaxCalls
    /\ Len(r.heap) <= MaxNodes
    /\ \A n \in Handles(r.heap) : Len(r.heap[n].data.text) <= MaxTextLen
    /\ calls' = calls + 1
    /\ heap' = r.heap
    /\ panicked' = r.panic
    /\ last' = call
    /\ UNCHANGED <<cache, args, result>>

CreateElement ==
    /\ ~panicked
    /\ LET h1 == create_element(heap, Str_div, <<>>, FALSE, FALSE)
       IN  Returns(Ok(h1), Call("create_element", None, Len(h1), FALSE))

HadParent(h, child) == ~child.isText /\ h[child.node].parent # None

DomAppend ==
    /\ ~panicked
    /\ \E parent \in Handles(heap), child \in ChildArgs(heap) :
        Returns(Dom_append(heap, parent, child),
                Call("append", None, None, HadParent(heap, child)))

DomAppendBeforeSibling ==
    /\ ~panicked
    /\ \E sibling \in Handles(heap), child \in ChildArgs(heap) :
        Returns(Dom_append_before_sibling(heap, sibling, child),
                Call("append_before_sibling", None, None, HadParent(heap, child)))

DomAppendBasedOnParentNode ==
    /\ ~panicked
    /\ \E element \in Handles(heap), prev_element \in Handles(heap),
          child \in ChildArgs(heap) :
        Returns(Dom_append_based_on_parent_node(heap, element, prev_element, child),
                Call("append_based_on_parent_node", None, None,
                     HadParent(heap, child)))

DomRemoveFromParent ==
    /\ ~panicked
    /\ \E target \in Handles(heap) :
        Returns(Dom_remove_from_parent(heap, target),
                Call("remove_from_parent", None, None, heap[target].parent # None))

DomReparentChildren ==
    /\ ~panicked
    /\ \E node \in Handles(heap), new_parent \in Handles(heap) :
        Returns(Dom_reparent_children(heap, node, new_parent),
                Call("reparent_children", None, None, FALSE))

Next ==
    \/ CreateElement
    \/ DomAppend
    \/ DomAppendBeforeSibling
    \/ DomAppendBasedOnParentNode
    \/ DomRemoveFromParent
    \/ DomReparentChildren

Spec == Init /\ [][Next]_vars

\* ---------------------------------------------------------------- C1, C2
\* Every entry of every child list, as (owner, position) pairs holding n.
Slots(h, n) ==
    {<<p, k>> \in Handles(h) \X (1..Len(h)) :
        k <= Len(h[p].children) /\ h[p].children[k] = n}

\* C1: after any sequence of append, append_before_sibling,
\* remove_from_parent and reparent_children calls that returned, every node
\* whose parent back-reference is present occurs exactly once in the child
\* list of the node that back-reference names.
C1_ParentBackReferenceConsistent ==
    ~panicked =>
        \A n \in Handles(heap) :
            heap[n].parent # None =>
                Occurrences(heap[heap[n].parent].children, n) = 1

\* A node was re-pointed by reparent_children and sits under its new parent.
C1_Witness ==
    /\ ~panicked
    /\ last.op = "reparent_children"
    /\ \E n \in Handles(heap) :
        /\ heap[n].parent # None
        /\ heap[heap[n].parent].parent = None
        /\ heap[n].parent # 1

\* C2: child ownership is exclusive: every node occurs in at most one child
\* list and at most once in it, and the owner of that list is the node named
\* by its parent back-reference; this covers append_before_sibling of a node
\* that already had a parent.
C2_ExclusiveChildOwnership ==
    ~panicked =>
        \A n \in Handles(heap) :
            /\ Cardinality(Slots(heap, n)) <= 1
            /\ \A s \in Slots(heap, n) : heap[n].parent = s[1]

\* append_before_sibling has just moved a node that had a parent.
C2_Witness ==
    /\ ~panicked
    /\ last.op = "append_before_sibling"
    /\ last.moved
    /\ \E n \in Handles(heap) : heap[n].parent = 1 /\ Len(heap[1].children) = 2

\* ------------------------------------------------- deep-copy state machine
\* A driver that creates elements (template or not), attaches nodes and text
\* with append, and deep-copies any node.
CopyReturns(r, call) ==
    /\ calls < MaxCalls
    /\ Len(r.heap) <= MaxCopyNodes
    /\ \A n \in Handles(r.heap) : Len(r.heap[n].data.text) <= MaxTextLen
    /\ calls' = calls + 1
    /\ heap' = r.heap
    /\ panicked' = r.panic
    /\ last' = call
    /\ UNCHANGED <<cache, args, result>>

CopyCreateElement ==
    /\ ~panicked
    /\ \E template \in BOOLEAN :
        LET h1 == create_element(heap, Str_div, <<>>, template, FALSE)
        IN  CopyReturns(Ok(h1), Call("create_element", None, Len(h1), FALSE))

CopyAppend ==
    /\ ~panicked
    /\ \E parent \in Handles(heap), child \in ChildArgs(heap) :
        CopyReturns(Dom_append(heap, parent, child),
                    Call("append", None, None, HadParent(heap, child)))

\* deep_copy of a subtree; on a child-list cycle the recursion exhausts the
\* stack and the process aborts.
NodeDeepCopy ==
    /\ ~panicked
    /\ \E n \in Handles(heap) :
        IF HasCycle(heap, n)
        THEN CopyReturns(Panic(heap), Call("deep_copy", n, None, FALSE))
        ELSE LET c == deep_copy(heap, n)
             IN  CopyReturns(Ok(c.heap), Call("deep_copy", n, c.node, FALSE))

NextCopy ==
    \/ CopyCreateElement
    \/ CopyAppend
    \/ NodeDeepCopy

SpecCopy == Init /\ [][NextCopy]_vars

\* --------------------------------------------------------------------- C3
\* The nodes reachable from n through child lists and template contents.
RECURSIVE ReachClosure(_, _)
ReachClosure(h, S) ==
    LET next == S
                \cup UNION {{h[m].children[k] : k \in 1..Len(h[m].children)} : m \in S}
                \cup ({h[m].data.template_contents : m \in S} \ {None})
    IN  IF next = S THEN S ELSE ReachClosure(h, next)

Reach(h, n) == ReachClosure(h, {n})

\* C3: deep_copy(n) returns a subtree that shares no node with the source:
\* no node reachable from the copy through child lists or template contents
\* is a node reachable from n.
C3_DeepCopySharesNoNode ==
    (~panicked /\ last.op = "deep_copy") =>
        Reach(heap, last.ret) \cap Reach(heap, last.x) = {}

\* ------------------------------------------------------------ strings
\* char::is_whitespace, on the characters the model uses.
NBSP == "nbsp"
IsWhitespace(c) == c \in {" ", "\t", "\n", "\r", NBSP}

\* All strings over alphabet A of length at most n.
RECURSIVE StringsUpTo(_, _)
StringsUpTo(A, n) ==
    IF n = 0 THEN {<<>>}
    ELSE LET shorter == StringsUpTo(A, n - 1)
         IN  shorter \cup {Append(w, c) : w \in shorter, c \in A}

\* str::split_whitespace: scan left to right, closing the current token at
\* each whitespace character; empty tokens are not produced.
RECURSIVE split_whitespace_from(_, _, _, _)
split_whitespace_from(s, k, current, tokens) ==
    IF k > Len(s)
    THEN IF current = <<>> THEN tokens ELSE Append(tokens, current)
    ELSE IF IsWhitespace(s[k])
    THEN split_whitespace_from(s, k + 1, <<>>,
             IF current = <<>> THEN tokens ELSE Append(tokens, current))
    ELSE split_whitespace_from(s, k + 1, Append(current, s[k]), tokens)

split_whitespace(s) == split_whitespace_from(s, 1, <<>>, <<>>)

\* [String]::join(" ")
RECURSIVE join_space(_)
join_space(texts) ==
    IF texts = <<>> THEN <<>>
    ELSE IF Len(texts) = 1 THEN texts[1]
    ELSE texts[1] \o <<" ">> \o join_space(Tail(texts))

\* --------------------------------------------- MinimumDomTree::is_subset
\* Mutant of the loop of is_subset: a matched token of t2 is not consumed.
RECURSIVE is_subset_loop_reuses_token(_, _, _, _)
is_subset_loop_reuses_token(tokens1, tokens2, i, j) ==
    IF i < Len(tokens1) /\ j < Len(tokens2)
    THEN IF tokens1[i + 1] = tokens2[j + 1]
         THEN is_subset_loop_reuses_token(tokens1, tokens2, i + 1, j)
         ELSE is_subset_loop_reuses_token(tokens1, tokens2, i, j + 1)
    ELSE i = Len(tokens1)

\* The while loop of is_subset, i and j counted from 0 as in the source.
RECURSIVE is_subset_loop(_, _, _, _)
is_subset_loop(tokens1, tokens2, i, j) ==
    IF i < Len(tokens1) /\ j < Len(tokens2)
    THEN is_subset_loop(tokens1, tokens2,
                        IF tokens1[i + 1] = tokens2[j + 1] THEN i + 1 ELSE i,
                        j + 1)
    ELSE i = Len(tokens1)

is_subset(t1, t2) == is_subset_loop(split_whitespace(t1), split_whitespace(t2), 0, 0)

\* ------------------------------------------------ is_subset state machine
SubsetAlphabet == {"a", "b", " "}

InitSubset ==
    /\ heap = <<>>
    /\ panicked = FALSE
    /\ last = NoCall
    /\ calls = 0
    /\ cache = {}
    /\ args \in {[op |-> "is_subset", t1 |-> t1, t2 |-> t2] :
                    t1 \in StringsUpTo(SubsetAlphabet, MaxT1Len),
                    t2 \in StringsUpTo(SubsetAlphabet, MaxT2Len)}
    /\ result = NoResult

IsSubsetCall ==
    /\ result = NoResult
    /\ result' = [op |-> "is_subset", value |-> is_subset(args.t1, args.t2)]
    /\ UNCHANGED <<heap, panicked, last, calls, cache, args>>

NextSubset == IsSubsetCall

SpecSubset == InitSubset /\ [][NextSubset]_vars

\* --------------------------------------------------------------------- C5
\* The tokens of s by definition: its maximal runs of non-whitespace
\* characters, as (first, last) positions.
TokenSpans(s) ==
    {<<i, j>> \in (1..Len(s)) \X (1..Len(s)) :
        /\ i <= j
        /\ \A k \in i..j : ~IsWhitespace(s[k])
        /\ (i = 1 \/ IsWhitespace(s[i - 1]))
        /\ (j = Len(s) \/ IsWhitespace(s[j + 1]))}

\* The token spans of t1 can be matched, in order, to token spans of t2
\* holding the same characters.
TokensAreSubsequence(t1, t2) ==
    LET S1 == TokenSpans(t1)
        S2 == TokenSpans(t2)
    IN  \E f \in [S1 -> S2] :
            /\ \A x \in S1 : SubSeq(t1, x[1], x[2]) = SubSeq(t2, f[x][1], f[x][2])
            /\ \A x, y \in S1 : x[1] < y[1] => f[x][1] < f[y][1]

\* C5: is_subset(t1, t2) is true if and only if the whitespace-token sequence
\* of t1 is an in-order, not necessarily contiguous, subsequence of the token
\* sequence of t2.
C5_IsSubsetIffTokenSubsequence ==
    result.op = "is_subset" =>
        (result.value <=> TokensAreSubsequence(args.t1, args.t2))

\* is_subset returned true for a two-token t1 found non-contiguously in t2.
C5_Witness ==
    /\ result.op = "is_subset"
    /\ result.value
    /\ args.t1 = <<"a", " ", "a">>
    /\ args.t2 = <<"a", " ", "b", " ", "a">>

\* is_subset returned false because the tokens occur in the other order.
C5_WitnessOrder ==
    /\ result.op = "is_subset"
    /\ ~result.value
    /\ args.t1 = <<"b", " ", "a">>
    /\ args.t2 = <<"a", " ", "b">>

\* ------------------------------------------------------ node equality
\* impl PartialEq for Node: equality of the data alone, children and identity
\* ignored; the derived equality of NodeData compares template contents as
\* nodes, that is again by their data.
RECURSIVE Node_eq(_, _, _)
Node_eq(h, a, b) ==
    LET da == h[a].data
        db == h[b].data
    IN  /\ [da EXCEPT !.template_contents = None] = [db EXCEPT !.template_contents = None]
        /\ (da.template_contents = None) <=> (db.template_contents = None)
        /\ da.template_contents # None =>
               Node_eq(h, da.template_contents, db.template_contents)

\* impl Hash for Node: the data, with template contents hashed by address.
Node_hash(h, a) == h[a].data

\* Vec<Handle>::contains
Vec_contains(h, nodes, x) == \E k \in 1..Len(nodes) : Node_eq(h, nodes[k], x)

\* ------------------------------------------- HashMap<Handle, String> cache
\* The cache is a set of entries; an entry answers for every node with the
\* hash and the data of its key.
cache_hit(h, c, node) ==
    {e \in c : Node_hash(h, e.key) = Node_hash(h, node) /\ Node_eq(h, e.key, node)}

\* HashMap::insert: an entry with an equal key keeps its key and takes the
\* new value.
cache_insert(h, c, node, text) ==
    LET hit == cache_hit(h, c, node)
    IN  IF hit = {} THEN c \cup {[key |-> node, value |-> text]}
        ELSE (c \ hit) \cup {[key |-> e.key, value |-> text] : e \in hit}

\* ---------------------------------------------- MinimumDomTree::get_text
\* Returns the text and the cache as the call leaves it.
RECURSIVE get_text(_, _, _)
RECURSIVE get_text_children(_, _, _, _, _)
get_text(h, c, node) ==
    LET hit == cache_hit(h, c, node)
    IN  IF hit # {} THEN [text |-> (CHOOSE e \in hit : TRUE).value, cache |-> c]
        ELSE IF h[node].data.kind = "Text"
        THEN [text |-> h[node].data.text, cache |-> c]
        ELSE LET r == get_text_children(h, c, h[node].children, 1, <<>>)
                 joined_text == join_space(r.texts)
             IN  [text |-> joined_text,
                  cache |-> cache_insert(h, r.cache, node, joined_text)]

\* The loop over the children in get_text.
get_text_children(h, c, children, k, texts) ==
    IF k > Len(children) THEN [texts |-> texts, cache |-> c]
    ELSE LET r == get_text(h, c, children[k])
         IN  get_text_children(h, r.cache, children, k + 1, Append(texts, r.text))

\* --------------------------------------- MinimumDomTree::minimum_dom_tree
\* Option<Vec<Handle>>
NoneNodes == [some |-> FALSE, nodes |-> <<>>]
SomeNodes(nodes) == [some |-> TRUE, nodes |-> nodes]

\* If every child is in `nodes`, the children are replaced by the parent.
merge(h, node, nodes) ==
    IF \A k \in 1..Len(h[node].children) : Vec_contains(h, nodes, h[node].children[k])
    THEN Append(SelectSeq(nodes, LAMBDA elem : ~Vec_contains(h, h[node].children, elem)),
                node)
    ELSE nodes

\* Returns the option and the cache as the call leaves it.
RECURSIVE minimum_dom_tree(_, _, _, _)
RECURSIVE minimum_dom_tree_children(_, _, _, _, _, _)
minimum_dom_tree(h, c, node, text) ==
    IF text = <<>> THEN [ret |-> NoneNodes, cache |-> c]
    ELSE
    LET g == get_text(h, c, node)
        text_subset_of_node == is_subset(text, g.text)
        node_subset_of_text == is_subset(g.text, text)
    IN  IF ~text_subset_of_node /\ ~node_subset_of_text
        THEN [ret |-> NoneNodes, cache |-> g.cache]
        ELSE
        LET r == minimum_dom_tree_children(h, g.cache, h[node].children, text, 1, <<>>)
        IN  IF r.nodes = <<>>
            THEN [ret |-> IF node_subset_of_text THEN SomeNodes(<<node>>) ELSE NoneNodes,
                  cache |-> r.cache]
            ELSE [ret |-> SomeNodes(merge(h, node, r.nodes)), cache |-> r.cache]

\* The first loop over the children in minimum_dom_tree.
minimum_dom_tree_children(h, c, children, text, k, nodes) ==
    IF k > Len(children) THEN [nodes |-> nodes, cache |-> c]
    ELSE LET r == minimum_dom_tree(h, c, children[k], text)
         IN  minimum_dom_tree_children(h, r.cache, children, text, k + 1,
                 IF r.ret.some THEN nodes \o r.ret.nodes ELSE nodes)

\* -------------------------------------------------- MinimumDomTree::build
\* `text.is_empty() ||` short-circuits before get_text is called; the early
\* return leaves the cache as get_text filled it.
build(h, c, tree, text) ==
    IF text = <<>> THEN [ret |-> NoneNodes, cache |-> c]
    ELSE
    LET g == get_text(h, c, tree)
    IN  IF ~is_subset(text, g.text) THEN [ret |-> NoneNodes, cache |-> g.cache]
        ELSE [ret |-> minimum_dom_tree(h, g.cache, tree, text).ret, cache |-> {}]

\* ---------------------------------------------- extractor state machine
Str_p == <<"p">>
Str_b == <<"b">>
Str_a_b == <<"a", " ", "b">>
Str_a_a == <<"a", " ", "a">>
Str_b_a == <<"b", " ", "a">>

\* The elements of a set of handles in increasing order.
RECURSIVE HandleSeq(_)
HandleSeq(S) ==
    IF S = {} THEN <<>>
    ELSE LET m == CHOOSE x \in S : \A y \in S : x <= y
         IN  <<m>> \o HandleSeq(S \ {m})

\* What the nodes below the root of an extractor tree hold.
TreeDatas ==
    {NodeData_Element(Str_p, <<>>, None, FALSE),
     NodeData_Text(Str_a), NodeData_Text(Str_b), NodeData_Text(Str_a_b)}

\* The ways to hang nodes 2..n of a tree: node i below a node made before it.
ParentVectors(n) == {f \in [2..n -> 1..n] : \A i \in 2..n : f[i] < i}

\* A tree of n nodes rooted in a div, built by append as the tests build
\* theirs: node i > 1 holds data[i] and is appended to par[i].
Tree(n, par, data) ==
    [i \in 1..n |->
        [data |-> IF i = 1 THEN NodeData_Element(Str_div, <<>>, None, FALSE) ELSE data[i],
         parent |-> IF i = 1 THEN None ELSE par[i],
         children |-> HandleSeq({j \in 2..n : par[j] = i})]]

\* No text node has children.
TextsAreLeaves(h) ==
    \A i \in 1..Len(h) : h[i].data.kind = "Text" => h[i].children = <<>>

\* The heap holds one tree of at most max nodes with data from datas.
HeapIsTree(datas, max) ==
    \E n \in 1..max :
        \E par \in ParentVectors(n), data \in [2..n -> datas] :
            /\ heap = Tree(n, par, data)
            /\ TextsAreLeaves(heap)

BuildTexts == {<<>>, Str_a, Str_b, Str_a_b, Str_a_a, Str_b_a}

\* MinimumDomTree::new, and a tree for it to be used on.
\* A p holding the text "a", a second p with the text "a" and the text "b",
\* all below the root div: two distinct nodes with equal data on one path.
nested_equal_tags_tree ==
    <<[data |-> NodeData_Element(Str_div, <<>>, None, FALSE),
       parent |-> None, children |-> <<2>>],
      [data |-> NodeData_Element(Str_p, <<>>, None, FALSE),
       parent |-> 1, children |-> <<3, 4, 6>>],
      [data |-> NodeData_Text(Str_a), parent |-> 2, children |-> <<>>],
      [data |-> NodeData_Element(Str_p, <<>>, None, FALSE),
       parent |-> 2, children |-> <<5>>],
      [data |-> NodeData_Text(Str_a), parent |-> 4, children |-> <<>>],
      [data |-> NodeData_Text(Str_b), parent |-> 2, children |-> <<>>]>>

InitMdt ==
    /\ \/ heap = nested_equal_tags_tree
       \/ HeapIsTree(TreeDatas, MaxTreeNodes)
    /\ panicked = FALSE
    /\ last = NoCall
    /\ calls = 0
    /\ cache = {}
    /\ args = NoArgs
    /\ result = NoResult

\* A call of build on the extractor, whatever calls came before.
Build ==
    \E tree \in Handles(heap), text \in BuildTexts :
        LET b == build(heap, cache, tree, text)
        IN  /\ cache' = b.cache
            /\ args' = [op |-> "build", tree |-> tree, text |-> text]
            /\ result' = [op |-> "build", some |-> b.ret.some, nodes |-> b.ret.nodes]
            /\ UNCHANGED <<heap, panicked, last, calls>>

NextMdt == Build

SpecMdt == InitMdt /\ [][NextMdt]_vars

\* ------------------------------------------------------------- C6, C7, C8
\* The text of a node: the buffer of a text node, the space-join of the
\* children's texts for any other node.
RECURSIVE TextOf(_, _)
TextOf(h, n) ==
    IF h[n].data.kind = "Text" THEN h[n].data.text
    ELSE join_space([k \in 1..Len(h[n].children) |-> TextOf(h, h[n].children[k])])

\* C6: for any tree and any non-empty text whose tokens are an in-order
\* subsequence of the tokens of the tree's full text, build(tree, text)
\* returns a node list and the space-join of the returned nodes' texts, in
\* list order, equals the input text.
C6_BuildReconstructsText ==
    (/\ result.op = "build"
     /\ args.text # <<>>
     /\ TokensAreSubsequence(args.text, TextOf(heap, args.tree)))
    => /\ result.some
       /\ join_space([k \in 1..Len(result.nodes) |-> TextOf(heap, result.nodes[k])])
              = args.text

\* C7: build(tree, text) returns none whenever text is empty or the tokens of
\* text are not an in-order subsequence of the tokens of the tree's actual
\* full text, for every tree and whatever build calls were made before.
C7_BuildNoneWhenNotSubsequence ==
    (/\ result.op = "build"
     /\ \/ args.text = <<>>
        \/ ~TokensAreSubsequence(args.text, TextOf(heap, args.tree)))
    => ~result.some

\* C8: the memo cache is empty whenever a build call has returned, whatever
\* the call returned.
C8_CacheEmptyAfterBuild == result.op = "build" => cache = {}

\* ------------------------------------------------------ selector parsing
\* Option<String>
NoneStr == [some |-> FALSE, value |-> <<>>]
SomeStr(value) == [some |-> TRUE, value |-> value]

\* SelectorSegment
SelectorSegment(element, classes, id) ==
    [element |-> element, classes |-> classes, id |-> id]

\* str::trim: drop the leading and the trailing whitespace.
RECURSIVE trim_start(_)
trim_start(s) ==
    IF s # <<>> /\ IsWhitespace(s[1]) THEN trim_start(Tail(s)) ELSE s

RECURSIVE trim_end(_)
trim_end(s) ==
    IF s # <<>> /\ IsWhitespace(s[Len(s)]) THEN trim_end(SubSeq(s, 1, Len(s) - 1)) ELSE s

trim(s) == trim_end(trim_start(s))

\* The scan of one segment, character k onwards; st holds element, classes,
\* id, current_token and current_type ('e', 'c' or 'i').
RECURSIVE parse_segment_from(_, _, _)
parse_segment_from(segment, k, st) ==
    LET filled == st.current_token # <<>>
        token == st.current_token
    IN
    IF k > Len(segment)
    THEN SelectorSegment(
             IF filled /\ st.current_type = "e" THEN SomeStr(token) ELSE st.element,
             IF filled /\ st.current_type = "c" THEN Append(st.classes, token) ELSE st.classes,
             IF filled /\ st.current_type = "i" THEN SomeStr(token) ELSE st.id)
    ELSE IF segment[k] = "."
    THEN parse_segment_from(segment, k + 1,
             [element |-> IF filled /\ st.current_type = "e" THEN SomeStr(token) ELSE st.element,
              classes |-> IF filled /\ st.current_type = "c" THEN Append(st.classes, token)
                          ELSE st.classes,
              id |-> IF filled /\ st.current_type = "i" THEN SomeStr(token) ELSE st.id,
              current_token |-> <<>>,
              current_type |-> "c"])
    ELSE IF segment[k] = "#"
    THEN parse_segment_from(segment, k + 1,
             [element |-> IF filled /\ st.current_type = "e" THEN SomeStr(token) ELSE st.element,
              classes |-> IF filled /\ st.current_type = "c" THEN Append(st.classes, token)
                          ELSE st.classes,
              id |-> st.id,
              current_token |-> <<>>,
              current_type |-> "i"])
    ELSE parse_segment_from(segment, k + 1,
             [st EXCEPT !.current_token = Append(token, segment[k])])

parse_segment(segment) ==
    parse_segment_from(segment, 1,
        [element |-> NoneStr, classes |-> <<>>, id |-> NoneStr,
         current_token |-> <<>>, current_type |-> "e"])

parse_selector_impl(selector) ==
    LET segments == split_whitespace(trim(selector))
    IN  [k \in 1..Len(segments) |-> parse_segment(segments[k])]

\* ----------------------------------------------------- selector matching
Str_class == <<"c", "l", "a", "s", "s">>
Str_id == <<"i", "d">>

\* html5ever::Attribute, of which the local name and the value are read.
Attribute(name, value) == [name |-> name, value |-> value]

\* Is x an entry of the sequence s.
SeqContains(s, x) == \E k \in 1..Len(s) : s[k] = x

matches_segment(h, node, segment) ==
    LET data == h[node].data
        attrs == data.attrs
        class_attrs == SelectSeq(attrs, LAMBDA attr : attr.name = Str_class)
    IN  /\ data.kind = "Element"
        /\ segment.element.some => data.name = segment.element.value
        /\ segment.id.some =>
               \E k \in 1..Len(attrs) :
                   attrs[k].name = Str_id /\ attrs[k].value = segment.id.value
        /\ segment.classes # <<>> =>
               /\ class_attrs # <<>>
               /\ \A k \in 1..Len(segment.classes) :
                      SeqContains(split_whitespace(class_attrs[1].value), segment.classes[k])

\* ------------------------------------------------- select_all_recursive
RECURSIVE select_all_recursive(_, _, _, _, _)
RECURSIVE select_children(_, _, _, _, _, _)

\* Mutant: a node that matches the current segment is not searched for
\* further matches of the same segment.
select_all_recursive_stops_at_match(h, node, segments, segment_index, results) ==
    IF segment_index >= Len(segments) THEN results
    ELSE IF matches_segment(h, node, segments[segment_index + 1])
    THEN IF segment_index = Len(segments) - 1
         THEN Append(results, node)
         ELSE select_children(h, h[node].children, 1, segments, segment_index + 1, results)
    ELSE select_children(h, h[node].children, 1, segments, segment_index, results)

\* Mutant: every node matching the last segment is pushed, whatever lies
\* above it.
select_all_recursive_ignoring_ancestors(h, node, segments, segment_index, results) ==
    IF segment_index >= Len(segments) THEN results
    ELSE select_children(h, h[node].children, 1, segments, segment_index,
             IF matches_segment(h, node, segments[Len(segments)])
             THEN Append(results, node)
             ELSE results)

\* segment_index counts from 0 as in the source; returns `results` as the
\* call leaves it.
select_all_recursive(h, node, segments, segment_index, results) ==
    IF segment_index >= Len(segments) THEN results
    ELSE
    LET matched ==
            IF matches_segment(h, node, segments[segment_index + 1])
            THEN IF segment_index = Len(segments) - 1
                 THEN Append(results, node)
                 ELSE select_children(h, h[node].children, 1, segments,
                                      segment_index + 1, results)
            ELSE results
    IN  select_children(h, h[node].children, 1, segments, segment_index, matched)

\* Mutant: the children are visited last to first.
select_children_reversed(h, children, k, segments, segment_index, results) ==
    IF k > Len(children) THEN results
    ELSE select_children(h, children, k + 1, segments, segment_index,
             select_all_recursive(h, children[Len(children) + 1 - k], segments,
                                  segment_index, results))

\* for child in node.children.borrow().iter(), from the k-th child on.
select_children(h, children, k, segments, segment_index, results) ==
    IF k > Len(children) THEN results
    ELSE select_children(h, children, k + 1, segments, segment_index,
             select_all_recursive(h, children[k], segments, segment_index, results))

select(h, tree, selector) ==
    IF trim(selector) = <<>> THEN <<>>
    ELSE LET segments == parse_selector_impl(selector)
         IN  IF segments = <<>> THEN <<>>
             ELSE select_all_recursive(h, tree, segments, 0, <<>>)

\* ------------------------------------------------ selector state machine
Str_span == <<"s", "p", "a", "n">>
Str_item == <<"i", "t", "e", "m">>
Str_item_active == <<"i", "t", "e", "m", " ", "a", "c", "t", "i", "v", "e">>
Str_container == <<"c", "o", "n", "t", "a", "i", "n", "e", "r">>
Str_root == <<"r", "o", "o", "t">>

\* create_test_node; `classes` is the joined class list, empty for none.
create_test_node(tag, classes, id) ==
    NodeData_Element(tag,
        (IF classes # <<>> THEN <<Attribute(Str_class, classes)>> ELSE <<>>)
            \o (IF id.some THEN <<Attribute(Str_id, id.value)>> ELSE <<>>),
        None, FALSE)

\* create_tree: root 1, span1 2, div1 3, p 4, span2 5.
create_tree ==
    <<[data |-> create_test_node(Str_div, Str_container, SomeStr(Str_root)),
       parent |-> None, children |-> <<2, 3, 5>>],
      [data |-> create_test_node(Str_span, Str_item, NoneStr),
       parent |-> 1, children |-> <<>>],
      [data |-> create_test_node(Str_div, Str_item_active, NoneStr),
       parent |-> 1, children |-> <<4>>],
      [data |-> create_test_node(Str_p, <<>>, NoneStr),
       parent |-> 3, children |-> <<>>],
      [data |-> create_test_node(Str_span, Str_item, NoneStr),
       parent |-> 1, children |-> <<>>]>>

\* What the nodes below the root of a generated selector tree hold.
SelDatas ==
    {create_test_node(Str_div, <<>>, NoneStr),
     create_test_node(Str_p, <<>>, NoneStr),
     create_test_node(Str_span, Str_item, NoneStr),
     NodeData_Text(Str_a)}

Sel_empty == <<>>
Sel_blank == <<" ", " ", " ">>
Sel_item == <<".", "i", "t", "e", "m">>
Sel_div_p == <<"d", "i", "v", " ", "p">>
Sel_table == <<"t", "a", "b", "l", "e">>
Sel_div_div == <<"d", "i", "v", " ", "d", "i", "v">>
Sel_span_item == <<"s", "p", "a", "n", ".", "i", "t", "e", "m">>
Sel_div_root_container ==
    <<"d", "i", "v", "#", "r", "o", "o", "t", ".", "c", "o", "n", "t", "a", "i", "n", "e", "r">>
Sel_item_active == <<".", "i", "t", "e", "m", ".", "a", "c", "t", "i", "v", "e">>
Sel_p_padded == <<" ", "p", " ">>
Sel_div_div_p == <<"d", "i", "v", " ", "d", "i", "v", " ", "p">>

SelectorArgs ==
    {Sel_empty, Sel_blank, Sel_item, Sel_div_p, Sel_table, Sel_div_div,
     Sel_span_item, Sel_div_root_container, Sel_item_active, Sel_p_padded,
     Sel_div_div_p, Str_div, Str_p, Str_span}

\* A div holding a span that carries two class attributes, as create_element
\* makes it from such a list and as add_attrs_if_missing leaves an element
\* that had no class when the incoming list names class twice.
two_class_attrs_tree ==
    <<[data |-> NodeData_Element(Str_div, <<>>, None, FALSE),
       parent |-> None, children |-> <<2>>],
      [data |-> NodeData_Element(Str_span,
                    <<Attribute(Str_class, Str_container),
                      Attribute(Str_class, Str_item)>>, None, FALSE),
       parent |-> 1, children |-> <<>>]>>

InitSel ==
    /\ \/ heap = create_tree
       \/ heap = two_class_attrs_tree
       \/ HeapIsTree(SelDatas, MaxSelNodes)
    /\ panicked = FALSE
    /\ last = NoCall
    /\ calls = 0
    /\ cache = {}
    /\ args = NoArgs
    /\ result = NoResult

\* One call of select on a tree nothing else touches.
Select ==
    \E tree \in Handles(heap), selector \in SelectorArgs :
        /\ result = NoResult
        /\ args' = [op |-> "select", tree |-> tree, selector |-> selector]
        /\ result' = [op |-> "select", nodes |-> select(heap, tree, selector)]
        /\ UNCHANGED <<heap, panicked, last, calls, cache>>

NextSel == Select

SpecSel == InitSel /\ [][NextSel]_vars

\* ---------------------------------------------------------------- C9, C10
\* The pre-order walk of the subtree of n: n, then its children's walks in
\* child-list order.
RECURSIVE PreOrder(_, _)
RECURSIVE PreOrderChildren(_, _, _)
PreOrder(h, n) == <<n>> \o PreOrderChildren(h, h[n].children, 1)

PreOrderChildren(h, children, k) ==
    IF k > Len(children) THEN <<>>
    ELSE PreOrder(h, children[k]) \o PreOrderChildren(h, children, k + 1)

\* Position of node n in the pre-order walk of tree.
PreOrderIndex(h, tree, n) ==
    CHOOSE k \in 1..Len(PreOrder(h, tree)) : PreOrder(h, tree)[k] = n

\* The nodes of the subtree of tree that end a chain n_1, .., n_k of nodes,
\* each a proper descendant of the one before, n_i matching segments[i].
RECURSIVE ChainEnds(_, _, _, _)
ChainEnds(h, tree, segments, k) ==
    IF k = 1
    THEN {n \in {tree} \cup Descendants(h, tree) : matches_segment(h, n, segments[1])}
    ELSE {n \in Descendants(h, tree) :
             /\ matches_segment(h, n, segments[k])
             /\ \E m \in ChainEnds(h, tree, segments, k - 1) : n \in Descendants(h, m)}

\* The select call was made on create_tree's root.
OnCreateTree == result.op = "select" /\ heap = create_tree /\ args.tree = 1

\* The local names of the elements in a list of nodes.
Names(h, nodes) == [k \in 1..Len(nodes) |-> h[nodes[k]].data.name]

\* C9 as stated: on create_tree, select(tree, ".item") returns exactly three
\* nodes in the order span, div, span, and select(tree, "div p") returns a
\* list holding exactly the p node, one entry.
C9_Original ==
    OnCreateTree =>
        /\ args.selector = Sel_item =>
               /\ result.nodes = <<2, 3, 5>>
               /\ Names(heap, result.nodes) = <<Str_span, Str_div, Str_span>>
        /\ args.selector = Sel_div_p => result.nodes = <<4>>

\* C9 amended: on create_tree, select(tree, ".item") returns exactly three
\* nodes in the order span, div, span, and select(tree, "div p") returns a
\* list of two entries, both the p node: one for each of the two div
\* ancestors of p.
C9_SelectOnCreateTree ==
    OnCreateTree =>
        /\ args.selector = Sel_item =>
               /\ result.nodes = <<2, 3, 5>>
               /\ Names(heap, result.nodes) = <<Str_span, Str_div, Str_span>>
        /\ args.selector = Sel_div_p =>
               /\ result.nodes = <<4, 4>>
               /\ Names(heap, result.nodes) = <<Str_p, Str_p>>

\* select(create_tree, "div p") has returned.
C9_Witness == OnCreateTree /\ args.selector = Sel_div_p /\ Len(result.nodes) = 2

\* select(create_tree, ".item") has returned.
C9_WitnessItem == OnCreateTree /\ args.selector = Sel_item /\ Len(result.nodes) = 3

\* An empty or whitespace-only selector and a selector matching nothing
\* return the empty list.
EmptyWhenNothingToMatch ==
    LET segments == split_whitespace(args.selector)
    IN  (\/ segments = <<>>
         \/ ChainEnds(heap, args.tree, parse_selector_impl(args.selector),
                      Len(segments)) = {})
        => result.nodes = <<>>

C10_WitnessEmpty ==
    /\ result.op = "select"
    /\ args.selector \in {Sel_empty, Sel_blank}
    /\ result.nodes = <<>>
    /\ Len(heap) > 1

\* ------------------------------------------------------- preprocess_text
INLINE_TAGS ==
    {
     <<"b">>, <<"b", "l", "o", "c", "k", "q", "u", "o", "t", "e">>,
     <<"c", "o", "d", "e">>, <<"e", "m">>, <<"i">>, <<"s", "m", "a", "l", "l">>,
     <<"s", "t", "r", "i", "k", "e">>, <<"s", "t", "r", "o", "n", "g">>}

FORBIDDEN_TAGS ==
    {
     <<"s", "c", "r", "i", "p", "t">>, <<"n", "o", "s", "c", "r", "i", "p", "t">>,
     <<"i", "f", "r", "a", "m", "e">>, <<"o", "b", "j", "e", "c", "t">>,
     <<"e", "m", "b", "e", "d">>, <<"a", "p", "p", "l", "e", "t">>,
     <<"l", "i", "n", "k">>, <<"m", "e", "t", "a">>, <<"s", "t", "y", "l", "e">>,
     <<"s", "v", "g">>, <<"c", "a", "n", "v", "a", "s">>, <<"a", "u", "d", "i", "o">>,
     <<"v", "i", "d", "e", "o">>, <<"b", "u", "t", "t", "o", "n">>, <<"n", "a", "v">>,
     <<"h", "e", "a", "d", "e", "r">>, <<"f", "o", "o", "t", "e", "r">>, <<"h", "r">>,
     <<"b", "r">>}

\* Does s start with the pattern.
starts_with(s, pattern) ==
    Len(s) >= Len(pattern) /\ SubSeq(s, 1, Len(pattern)) = pattern

\* str::contains
RECURSIVE contains(_, _)
contains(s, pattern) ==
    IF Len(s) < Len(pattern) THEN FALSE
    ELSE starts_with(s, pattern) \/ contains(Tail(s), pattern)

\* str::replace: the non-overlapping matches, found left to right.
RECURSIVE replace(_, _, _)
replace(s, from, to) ==
    IF Len(s) < Len(from) THEN s
    ELSE IF starts_with(s, from)
    THEN to \o replace(SubSeq(s, Len(from) + 1, Len(s)), from, to)
    ELSE <<s[1]>> \o replace(Tail(s), from, to)

Str_space == <<" ">>
Str_two_spaces == <<" ", " ">>
Str_nbsp_entity == <<"&", "n", "b", "s", "p", ";">>

\* Mutant of the loop below: double spaces are replaced in one sweep only.
collapse_spaces_in_one_sweep(s) == replace(s, Str_two_spaces, Str_space)

\* while result.contains("  ") { result = result.replace("  ", " ") }
RECURSIVE collapse_spaces(_)
collapse_spaces(s) ==
    IF contains(s, Str_two_spaces)
    THEN collapse_spaces(replace(s, Str_two_spaces, Str_space))
    ELSE s

preprocess_text(text) ==
    LET trimmed == trim(text)
        spaced == replace(replace(replace(replace(replace(trimmed,
                      Str_nbsp_entity, Str_space),
                      <<"\n">>, Str_space),
                      <<"\r">>, Str_space),
                      <<"\t">>, Str_space),
                      <<NBSP>>, Str_space)
    IN  trim(collapse_spaces(spaced))

\* ------------------------------------------- Preprocessor::preprocess_node
\* PreprocessConfig
PreprocessConfig(remove_links, remove_images, remove_tables) ==
    [remove_links |-> remove_links, remove_images |-> remove_images,
     remove_tables |-> remove_tables]

Str_img == <<"i", "m", "g">>
Str_table == <<"t", "a", "b", "l", "e">>

\* Node::new_text: a fresh text node at the end of the heap.
new_text(h, text) == Append(h, Node_new(NodeData_Text(text)))

\* Option<Handle> returned with the heap as the call leaves it.
Processed(h, ret) == [heap |-> h, ret |-> ret]

\* Mutant of is_removed: the configuration is not consulted.
is_removed_ignoring_config(config, data) ==
    data.kind = "Element" /\ data.name \in FORBIDDEN_TAGS

\* The element is dropped whole: a forbidden tag, or a tag the configuration
\* removes.
is_removed(config, data) ==
    /\ data.kind = "Element"
    /\ \/ data.name \in FORBIDDEN_TAGS
       \/ config.remove_links /\ data.name = Str_a
       \/ config.remove_images /\ data.name = Str_img
       \/ config.remove_tables /\ data.name = Str_table

\* Mutant of flush_texts: every pending text is pushed as a node of its own.
RECURSIVE flush_texts_one_node_each(_)
flush_texts_one_node_each(st) ==
    IF st.texts = <<>> THEN st
    ELSE LET h1 == new_text(st.heap, preprocess_text(Head(st.texts)))
         IN  flush_texts_one_node_each(
                 [st EXCEPT !.heap = h1,
                            !.processed_children = Append(@, Len(h1)),
                            !.texts = Tail(@)])

\* The pending texts joined, cleaned and pushed as one new text node.
flush_texts(st) ==
    IF st.texts = <<>> THEN st
    ELSE LET h1 == new_text(st.heap, preprocess_text(join_space(st.texts)))
         IN  [st EXCEPT !.heap = h1,
                        !.processed_children = Append(@, Len(h1)),
                        !.texts = <<>>]

RECURSIVE preprocess_node(_, _, _)
RECURSIVE preprocess_children(_, _, _, _)

\* for child in children.iter(), from the k-th child on; st holds the heap,
\* processed_children, texts and only_text.
preprocess_children(config, children, k, st) ==
    IF k > Len(children) THEN st
    ELSE
    LET r == preprocess_node(st.heap, config, children[k])
    IN  IF r.ret = None
        THEN preprocess_children(config, children, k + 1, [st EXCEPT !.heap = r.heap])
        ELSE IF r.heap[r.ret].data.kind = "Text"
        THEN preprocess_children(config, children, k + 1,
                 [st EXCEPT !.heap = r.heap,
                            !.texts = Append(@, r.heap[r.ret].data.text)])
        ELSE LET flushed == flush_texts([st EXCEPT !.heap = r.heap])
             IN  preprocess_children(config, children, k + 1,
                     [flushed EXCEPT !.processed_children = Append(@, r.ret),
                                     !.only_text = FALSE])

\* The texts of the text nodes among `nodes`, in order.
RECURSIVE texts_of(_, _)
texts_of(h, nodes) ==
    IF nodes = <<>> THEN <<>>
    ELSE (IF h[nodes[1]].data.kind = "Text" THEN <<h[nodes[1]].data.text>> ELSE <<>>)
             \o texts_of(h, Tail(nodes))

\* The last step: the node itself is returned (node.clone() clones the
\* handle), parentless, with the processed children as its children.
relink(h, node, processed_children) ==
    [n \in 1..Len(h) |->
        IF n = node
        THEN [h[n] EXCEPT !.parent = None, !.children = processed_children]
        ELSE IF SeqContains(processed_children, n)
        THEN [h[n] EXCEPT !.parent = node]
        ELSE h[n]]

\* Mutant of preprocess_node: a node whose single processed child has its own
\* tag is kept as it is.
preprocess_node_without_collapse(h, config, node) ==
    LET data == h[node].data
    IN
    IF data.kind = "Text"
    THEN LET processed_text == preprocess_text(data.text)
         IN  IF processed_text = <<>> THEN Processed(h, None)
             ELSE Processed(new_text(h, processed_text), Len(h) + 1)
    ELSE IF is_removed(config, data) THEN Processed(h, None)
    ELSE
    LET st == flush_texts(preprocess_children(config, h[node].children, 1,
                  [heap |-> h, processed_children |-> <<>>, texts |-> <<>>,
                   only_text |-> TRUE]))
        processed_children == st.processed_children
    IN  IF processed_children = <<>> THEN Processed(st.heap, None)
        ELSE IF st.only_text /\ data.kind = "Element" /\ data.name \in INLINE_TAGS
        THEN Processed(new_text(st.heap,
                           preprocess_text(join_space(texts_of(st.heap, processed_children)))),
                       Len(st.heap) + 1)
        ELSE Processed(relink(st.heap, node, processed_children), node)

\* Mutant of preprocess_node: an inline element holding only text is kept as
\* an element.
preprocess_node_without_flattening(h, config, node) ==
    LET data == h[node].data
    IN
    IF data.kind = "Text"
    THEN LET processed_text == preprocess_text(data.text)
         IN  IF processed_text = <<>> THEN Processed(h, None)
             ELSE Processed(new_text(h, processed_text), Len(h) + 1)
    ELSE IF is_removed(config, data) THEN Processed(h, None)
    ELSE
    LET st == flush_texts(preprocess_children(config, h[node].children, 1,
                  [heap |-> h, processed_children |-> <<>>, texts |-> <<>>,
                   only_text |-> TRUE]))
        processed_children == st.processed_children
        child == processed_children[1]
    IN  IF processed_children = <<>> THEN Processed(st.heap, None)
        ELSE IF /\ Len(processed_children) = 1
                /\ data.kind = "Element"
                /\ st.heap[child].data.kind = "Element"
                /\ data.name = st.heap[child].data.name
        THEN LET c == deep_copy(st.heap, child)
             IN  Processed(c.heap, c.node)
        ELSE Processed(relink(st.heap, node, processed_children), node)

preprocess_node(h, config, node) ==
    LET data == h[node].data
    IN
    IF data.kind = "Text"
    THEN LET processed_text == preprocess_text(data.text)
         IN  IF processed_text = <<>> THEN Processed(h, None)
             ELSE Processed(new_text(h, processed_text), Len(h) + 1)
    ELSE IF is_removed(config, data) THEN Processed(h, None)
    ELSE
    LET st == flush_texts(preprocess_children(config, h[node].children, 1,
                  [heap |-> h, processed_children |-> <<>>, texts |-> <<>>,
                   only_text |-> TRUE]))
        processed_children == st.processed_children
        child == processed_children[1]
    IN  IF processed_children = <<>> THEN Processed(st.heap, None)
        ELSE IF /\ Len(processed_children) = 1
                /\ data.kind = "Element"
                /\ st.heap[child].data.kind = "Element"
                /\ data.name = st.heap[child].data.name
        THEN LET c == deep_copy(st.heap, child)
             IN  Processed(c.heap, c.node)
        ELSE IF st.only_text /\ data.kind = "Element" /\ data.name \in INLINE_TAGS
        THEN Processed(new_text(st.heap,
                           preprocess_text(join_space(texts_of(st.heap, processed_children)))),
                       Len(st.heap) + 1)
        ELSE Processed(relink(st.heap, node, processed_children), node)

\* -------------------------------------------- preprocessor state machine
Str_script == <<"s", "c", "r", "i", "p", "t">>
Str_blank == <<" ", "\n">>
\* Cleans to "b b": five whitespace characters of the five replaced kinds
\* between the two letters, and whitespace at both ends.
Str_messy ==
    <<" ", "b", "\n", "\t", "&", "n", "b", "s", "p", ";", "\r", NBSP, "b", "\n">>

\* What the nodes below the root of a preprocessor tree hold: a block
\* element, an inline one, a forbidden one, a link, a table, and three texts.
PreDatas ==
    {NodeData_Element(Str_div, <<>>, None, FALSE),
     NodeData_Element(Str_b, <<>>, None, FALSE),
     NodeData_Element(Str_script, <<>>, None, FALSE),
     NodeData_Element(Str_a, <<>>, None, FALSE),
     NodeData_Element(Str_table, <<>>, None, FALSE),
     NodeData_Text(Str_a), NodeData_Text(Str_blank), NodeData_Text(Str_messy)}

\* The default configuration and the ones that keep links or tables; the
\* trees hold no img element, so remove_images makes no difference here.
Configs ==
    {PreprocessConfig(links, TRUE, tables) : links \in BOOLEAN, tables \in BOOLEAN}

\* The tree of test_remove_flags as the parser hands it over:
\* <div><p>Text with <a href>link</a></p><img src/></div> below the html and
\* body elements of a document with an empty head.
Str_html == <<"h", "t", "m", "l">>
Str_head == <<"h", "e", "a", "d">>
Str_body == <<"b", "o", "d", "y">>
Str_href == <<"h", "r", "e", "f">>
Str_src == <<"s", "r", "c">>
Str_x == <<"x">>
Str_y == <<"y">>
Str_link == <<"l", "i", "n", "k">>
Str_Text_with == <<"T", "e", "x", "t", " ", "w", "i", "t", "h">>

test_remove_flags_tree ==
    <<[data |-> NodeData_Document, parent |-> None, children |-> <<2>>],
      [data |-> NodeData_Element(Str_html, <<>>, None, FALSE),
       parent |-> 1, children |-> <<3, 4>>],
      [data |-> NodeData_Element(Str_head, <<>>, None, FALSE),
       parent |-> 2, children |-> <<>>],
      [data |-> NodeData_Element(Str_body, <<>>, None, FALSE),
       parent |-> 2, children |-> <<5>>],
      [data |-> NodeData_Element(Str_div, <<>>, None, FALSE),
       parent |-> 4, children |-> <<6, 10>>],
      [data |-> NodeData_Element(Str_p, <<>>, None, FALSE),
       parent |-> 5, children |-> <<7, 8>>],
      [data |-> NodeData_Text(Str_Text_with \o <<" ">>), parent |-> 6, children |-> <<>>],
      [data |-> NodeData_Element(Str_a, <<Attribute(Str_href, Str_x)>>, None, FALSE),
       parent |-> 6, children |-> <<9>>],
      [data |-> NodeData_Text(Str_link), parent |-> 8, children |-> <<>>],
      [data |-> NodeData_Element(Str_img, <<Attribute(Str_src, Str_y)>>, None, FALSE),
       parent |-> 5, children |-> <<>>]>>

\* Preprocessor::new(config), and a tree for it to rewrite.
InitPre ==
    /\ heap = test_remove_flags_tree \/ HeapIsTree(PreDatas, MaxPreNodes)
    /\ panicked = FALSE
    /\ last = NoCall
    /\ calls = 0
    /\ cache = {}
    /\ args \in {[op |-> "new", config |-> config] : config \in Configs}
    /\ result = NoResult

\* The tree below n as a value: data and children, no identities.
RECURSIVE TreeValue(_, _)
TreeValue(h, n) ==
    [data |-> h[n].data,
     children |-> [k \in 1..Len(h[n].children) |-> TreeValue(h, h[n].children[k])]]

\* preprocess_node on the root of the tree; `input` keeps the heap as it was
\* when the call was made.
PreprocessNode ==
    /\ result = NoResult
    /\ LET r == preprocess_node(heap, args.config, 1)
       IN  /\ heap' = r.heap
           /\ result' = [op |-> "preprocess_node", pass |-> 1, ret |-> r.ret,
                         first |-> <<>>, input |-> heap]
    /\ UNCHANGED <<panicked, last, calls, cache, args>>

\* preprocess_node, same configuration, on the tree the first call returned;
\* `first` keeps that tree as it was before this call.
PreprocessOutput ==
    /\ result.op = "preprocess_node"
    /\ result.pass = 1
    /\ result.ret # None
    /\ LET r == preprocess_node(heap, args.config, result.ret)
       IN  /\ heap' = r.heap
           /\ result' = [op |-> "preprocess_node", pass |-> 2, ret |-> r.ret,
                         first |-> TreeValue(heap, result.ret), input |-> heap]
    /\ UNCHANGED <<panicked, last, calls, cache, args>>

NextPre == PreprocessNode \/ PreprocessOutput

SpecPre == InitPre /\ [][NextPre]_vars

\* --------------------------------------------------------------------- C4
\* C4: the preprocessor is idempotent: for every input and configuration,
\* applying the rewrite to its own output with the same configuration yields
\* exactly the first output.
C4_PreprocessIdempotent ==
    (result.op = "preprocess_node" /\ result.pass = 2) =>
        /\ result.ret # None
        /\ TreeValue(heap, result.ret) = result.first

\* The second pass has run on an output whose single text "a b b" was merged
\* from a text node, cleaned, and the text of a flattened inline element.
C4_Witness ==
    /\ result.op = "preprocess_node"
    /\ result.pass = 2
    /\ result.first =
           [data |-> NodeData_Element(Str_div, <<>>, None, FALSE),
            children |-> <<[data |-> NodeData_Text(<<"a", " ", "b", " ", "b">>),
                            children |-> <<>>]>>]
    /\ \E n \in Handles(heap) : heap[n].data.name = Str_b /\ heap[n].children # <<>>

\* The second pass has run on the output of a same-tag collapse: the first
\* pass returned a copy, not the root it was given.
C4_WitnessCollapse ==
    /\ result.op = "preprocess_node"
    /\ result.pass = 2
    /\ result.first.data.name = Str_div
    /\ \E n \in Handles(heap) : n > 1 /\ heap[1].children = <<n>> /\ heap[n].data.name = Str_div
    /\ heap[1].parent = None
    /\ result.ret # 1

\* -------------------------------------------------------------------- C11
\* C11: the rewrite produces a tree disjoint from its input: no node of the
\* returned tree is a node of the input tree, and after the rewrite every
\* input node still has the child list and the parent back-reference it had
\* before.
C11_OutputDisjointInputUntouched ==
    (result.op = "preprocess_node" /\ result.pass = 1) =>
        /\ result.ret # None =>
               Reach(heap, result.ret) \cap Handles(result.input) = {}
        /\ \A n \in Handles(result.input) :
               /\ heap[n].children = result.input[n].children
               /\ heap[n].parent = result.input[n].parent

\* ------------------------------------------------------------ get_selector
\* The concatenation of a sequence of strings.
RECURSIVE concat(_)
concat(strings) ==
    IF strings = <<>> THEN <<>> ELSE strings[1] \o concat(Tail(strings))

\* for attr in attrs.borrow().iter(): what one attribute adds to the selector.
selector_of_attr(attr) ==
    IF attr.name = Str_class
    THEN LET classes == split_whitespace(attr.value)
         IN  concat([k \in 1..Len(classes) |-> <<".">> \o classes[k]])
    ELSE IF attr.name = Str_id THEN <<"#">> \o attr.value
    ELSE <<>>

\* Returns the Option<String> and the heap as the call leaves it:
\* node.parent.take() leaves None in the parent cell of the node.
RECURSIVE get_selector(_, _)
get_selector(h, node) ==
    IF h[node].data.kind # "Element" THEN [heap |-> h, ret |-> NoneStr]
    ELSE
    LET attrs == h[node].data.attrs
        selector == h[node].data.name
                        \o concat([k \in 1..Len(attrs) |-> selector_of_attr(attrs[k])])
        parent == h[node].parent
        taken == [h EXCEPT ![node].parent = None]
    IN  IF parent = None THEN [heap |-> taken, ret |-> SomeStr(selector)]
        ELSE LET r == get_selector(taken, parent)
             IN  [heap |-> r.heap,
                  ret |-> IF r.ret.some
                          THEN SomeStr(r.ret.value \o <<" ">> \o selector)
                          ELSE SomeStr(selector)]

\* ---------------------------------------------- get_selector state machine
Str_c_d == <<"c", " ", "d">>
Str_i == <<"i">>

\* What the nodes below the root of a get_selector tree hold: an element
\* with class before id, one with id before class, a bare one, and a text.
GetSelDatas ==
    {NodeData_Element(Str_div,
         <<Attribute(Str_class, Str_c_d), Attribute(Str_id, Str_i)>>, None, FALSE),
     NodeData_Element(Str_span,
         <<Attribute(Str_id, Str_i), Attribute(Str_class, Str_c_d)>>, None, FALSE),
     NodeData_Element(Str_p, <<>>, None, FALSE),
     NodeData_Text(Str_a)}

InitGetSel ==
    /\ \/ heap = two_class_attrs_tree
       \/ HeapIsTree(GetSelDatas, MaxSelNodes)
    /\ panicked = FALSE
    /\ last = NoCall
    /\ calls = 0
    /\ cache = {}
    /\ args = NoArgs
    /\ result = NoResult

\* A call of get_selector on any node of the tree, whatever calls came
\* before; `input` keeps the heap as it was when the call was made.
GetSelector ==
    \E node \in Handles(heap) :
        LET r == get_selector(heap, node)
        IN  /\ heap' = r.heap
            /\ args' = [op |-> "get_selector", node |-> node]
            /\ result' = [op |-> "get_selector", ret |-> r.ret, input |-> heap]
            /\ UNCHANGED <<panicked, last, calls, cache>>

NextGetSel == GetSelector

SpecGetSel == InitGetSel /\ [][NextGetSel]_vars

\* --------------------------------------------------------------- C12, C13
\* n and its ancestors, by the parent back-references of h.
RECURSIVE SelfAndAncestors(_, _)
SelfAndAncestors(h, n) ==
    IF h[n].parent = None THEN {n} ELSE {n} \cup SelfAndAncestors(h, h[n].parent)

\* C12: get_selector is read-only: after get_selector(node) returns, the
\* parent back-reference, child list and data of node and of every ancestor
\* are the same as before the call.
C12_GetSelectorReadOnly ==
    result.op = "get_selector" =>
        \A n \in SelfAndAncestors(result.input, args.node) : heap[n] = result.input[n]

\* The values of the attributes named `name`, in attribute order.
AttrValues(data, name) ==
    LET named == SelectSeq(data.attrs, LAMBDA attr : attr.name = name)
    IN  [k \in 1..Len(named) |-> named[k].value]

\* The part of one element: tag, then .c per class token, then #id.
SelectorPart(data) ==
    LET classes == split_whitespace(join_space(AttrValues(data, Str_class)))
        ids == AttrValues(data, Str_id)
    IN  data.name
            \o concat([k \in 1..Len(classes) |-> <<".">> \o classes[k]])
            \o concat([k \in 1..Len(ids) |-> <<"#">> \o ids[k]])

\* The parts from the topmost element ancestor down to n, joined by spaces.
RECURSIVE SelectorPath(_, _)
SelectorPath(h, n) ==
    IF h[n].parent # None /\ h[h[n].parent].data.kind = "Element"
    THEN SelectorPath(h, h[n].parent) \o <<" ">> \o SelectorPart(h[n].data)
    ELSE SelectorPart(h[n].data)

\* C13: for an element node, get_selector returns one part per level from
\* the topmost element ancestor down to the node, joined by single spaces,
\* each part the tag followed by .c for each class token and then #id,
\* classes before the id whatever the order of the attributes; for a
\* non-element node it returns none.
C13_GetSelectorPath ==
    result.op = "get_selector" =>
        IF result.input[args.node].data.kind = "Element"
        THEN result.ret = SomeStr(SelectorPath(result.input, args.node))
        ELSE result.ret = NoneStr

\* -------------------------------------------------------------------- C14
\* The nodes of the tree the first preprocess_node call returned.
OutputNodes ==
    IF result.ret = None THEN {} ELSE {result.ret} \cup Descendants(heap, result.ret)

\* The input nodes that are neither a removed element nor inside one.
KeptInput ==
    {n \in Handles(result.input) :
        \A m \in SelfAndAncestors(result.input, n) :
            ~is_removed(args.config, result.input[m].data)}

\* The tokens of a string, as a set.
TokenSet(text) ==
    LET tokens == split_whitespace(text) IN {tokens[k] : k \in 1..Len(tokens)}

\* <html><body><div><p>Text with</p></div></body></html> as a tree below the
\* document.
test_remove_flags_expected ==
    [data |-> NodeData_Document, children |->
      <<[data |-> NodeData_Element(Str_html, <<>>, None, FALSE), children |->
         <<[data |-> NodeData_Element(Str_body, <<>>, None, FALSE), children |->
            <<[data |-> NodeData_Element(Str_div, <<>>, None, FALSE), children |->
               <<[data |-> NodeData_Element(Str_p, <<>>, None, FALSE), children |->
                  <<[data |-> NodeData_Text(Str_Text_with),
                     children |-> <<>>]>>]>>]>>]>>]>>]

\* C14: for every input tree and configuration the output holds no element
\* with a forbidden tag and no a, img or table element whose removal flag is
\* true, and nothing from inside such an element: each output element has the
\* data of an input element outside them, each token of an output text is a
\* token of an input text outside them; and with the default configuration
\* the tree of <div><p>Text with <a>link</a></p><img/></div> becomes the tree
\* of <html><body><div><p>Text with</p></div></body></html>.
C14_RemovedElementsLeaveNothing ==
    (result.op = "preprocess_node" /\ result.pass = 1) =>
        /\ \A n \in OutputNodes :
               /\ ~is_removed(args.config, heap[n].data)
               /\ heap[n].data.kind # "Text" =>
                      \E v \in KeptInput : result.input[v].data = heap[n].data
               /\ heap[n].data.kind = "Text" =>
                      TokenSet(heap[n].data.text) \subseteq
                          UNION {TokenSet(preprocess_text(result.input[v].data.text)) :
                                    v \in KeptInput}
        /\ (/\ result.input = test_remove_flags_tree
            /\ args.config = PreprocessConfig(TRUE, TRUE, TRUE))
           => /\ result.ret # None
              /\ TreeValue(heap, result.ret) = test_remove_flags_expected

\* The first pass has run on the tree of test_remove_flags with the default
\* configuration and returned a tree that still holds text.
C14_Witness ==
    /\ result.op = "preprocess_node"
    /\ result.pass = 1
    /\ result.input = test_remove_flags_tree
    /\ args.config = PreprocessConfig(TRUE, TRUE, TRUE)
    /\ \E n \in OutputNodes : heap[n].data.kind = "Text"

\* The first pass has kept a link under a configuration that keeps links,
\* and dropped a table.
C14_WitnessKeptLink ==
    /\ result.op = "preprocess_node"
    /\ result.pass = 1
    /\ ~args.config.remove_links
    /\ args.config.remove_tables
    /\ \E n \in OutputNodes : heap[n].data.name = Str_a
    /\ \E n \in Handles(result.input) : result.input[n].data.name = Str_table

\* -------------------------------------------------------------------- C15
\* The step is a call append(parent, child) that returned.
AppendReturned(parent, child) ==
    /\ last'.op = "append"
    /\ ~panicked'
    /\ ~Dom_append(heap, parent, child).panic
    /\ heap' = Dom_append(heap, parent, child).heap

\* What append(parent, child) is to have done between heaps h and h2.
AppendPost(h, h2, parent, child) ==
    LET kids == h[parent].children
        kids2 == h2[parent].children
    IN  IF child.isText /\ kids # <<>> /\ h[kids[Len(kids)]].data.kind = "Text"
        THEN /\ kids2 = kids
             /\ h2[kids[Len(kids)]].data.text
                    = h[kids[Len(kids)]].data.text \o child.text
        ELSE /\ Len(kids2) = Len(kids) + 1
             /\ SubSeq(kids2, 1, Len(kids)) = kids
             /\ h2[kids2[Len(kids2)]].parent = parent
             /\ IF child.isText
                THEN /\ kids2[Len(kids2)] \notin Handles(h)
                     /\ h2[kids2[Len(kids2)]].data = NodeData_Text(child.text)
                ELSE kids2[Len(kids2)] = child.node

\* C15: append(parent, x): if x is text and parent's last child is a text
\* node, parent's child count is unchanged and that child's buffer becomes
\* its old content followed by the new text; in every other case the child
\* count grows by one, the new last child is the given node or a new text
\* node holding the text, its parent back-reference is parent, and all
\* earlier children keep their positions.
C15_AppendPostcondition ==
    [][\A parent \in Handles(heap), child \in ChildArgs(heap) :
           AppendReturned(parent, child) => AppendPost(heap, heap', parent, child)]_vars

\* append has returned after coalescing a text into the last child of a
\* parent that has an element child before it.
C15_Witness ==
    /\ ~panicked
    /\ last.op = "append"
    /\ \E p \in Handles(heap) :
           /\ Len(heap[p].children) = 2
           /\ heap[heap[p].children[1]].data.kind = "Element"
           /\ heap[heap[p].children[2]].data.text = <<"a", "a">>

\* -------------------------------------------------------------------- C16
\* The step is a call append_before_sibling(sibling, node), node a node
\* other than sibling, that returned.
AppendBeforeSiblingReturned(sibling, node) ==
    /\ last'.op = "append_before_sibling"
    /\ ~panicked'
    /\ node # sibling
    /\ ~Dom_append_before_sibling(heap, sibling, AppendNode(node)).panic
    /\ heap' = Dom_append_before_sibling(heap, sibling, AppendNode(node)).heap

\* node is a child of parent and sits immediately before sibling in h.
ImmediatelyBefore(h, parent, node, sibling) ==
    /\ h[node].parent = parent
    /\ \E k \in 1..(Len(h[parent].children) - 1) :
           h[parent].children[k] = node /\ h[parent].children[k + 1] = sibling

\* C16: after append_before_sibling(sibling, node) with a node, node is a
\* child of sibling's parent and sits immediately before sibling in that
\* parent's child list, wherever node lived before the call: parentless,
\* under another parent, or already under sibling's parent at any position.
C16_InsertedImmediatelyBeforeSibling ==
    [][\A sibling \in Handles(heap), node \in Handles(heap) :
           AppendBeforeSiblingReturned(sibling, node) =>
               ImmediatelyBefore(heap', heap[sibling].parent, node, sibling)]_vars

\* -------------------------------------------------------------------- C17
\* The step is a call reparent_children(node, new_parent) that returned.
ReparentChildrenReturned(node, new_parent) ==
    /\ last'.op = "reparent_children"
    /\ ~panicked'
    /\ ~Dom_reparent_children(heap, node, new_parent).panic
    /\ heap' = Dom_reparent_children(heap, node, new_parent).heap

\* C17: reparent_children(node, new_parent), called when node and new_parent
\* are different nodes and every child of node has node as its parent, leaves
\* node with no children, makes new_parent's child list its old list followed
\* by node's old children in their order, and sets the parent back-reference
\* of each moved child to new_parent.
C17_ReparentChildrenPostcondition ==
    [][\A node \in Handles(heap), new_parent \in Handles(heap) :
           (/\ ReparentChildrenReturned(node, new_parent)
            /\ node # new_parent
            /\ \A k \in 1..Len(heap[node].children) :
                   heap[heap[node].children[k]].parent = node)
           => /\ heap'[node].children = <<>>
              /\ heap'[new_parent].children
                     = heap[new_parent].children \o heap[node].children
              /\ \A k \in 1..Len(heap[node].children) :
                     heap'[heap[node].children[k]].parent = new_parent]_vars

\* reparent_children has returned after moving a child behind the child the
\* new parent had.
C17_Witness ==
    /\ ~panicked
    /\ last.op = "reparent_children"
    /\ \E p \in Handles(heap) :
           /\ Len(heap[p].children) = 2
           /\ \E q \in Handles(heap) : q # p /\ heap[q].children = <<>> /\ heap[q].parent = None
                                        /\ q # 1

\* ------------------------------------------- Dom::add_attrs_if_missing
MaxAttrCalls == 2
MaxAttrsLen == 2

\* The attributes of `attrs` whose name is not in `names`, in order.
filter_missing(attrs, names) ==
    SelectSeq(attrs, LAMBDA attr : attr.name \notin names)

\* Mutant: an incoming attribute replaces the value of an existing one of its
\* name (last-write-wins) before the missing ones are appended.
add_attrs_overwriting(h, target, attrs) ==
    IF h[target].data.kind # "Element"
    THEN Panic(h)
    ELSE LET existing == h[target].data.attrs
             existing_names == { existing[k].name : k \in 1..Len(existing) }
             overwritten ==
                 [k \in 1..Len(existing) |->
                     IF \E j \in 1..Len(attrs) : attrs[j].name = existing[k].name
                     THEN LET j == CHOOSE j \in 1..Len(attrs) :
                                       attrs[j].name = existing[k].name
                          IN  attrs[j]
                     ELSE existing[k]]
         IN  Ok([h EXCEPT ![target].data.attrs =
                     overwritten \o filter_missing(attrs, existing_names)])

\* The names on the element are collected before anything is appended, so two
\* incoming attributes of one missing name are both appended.
add_attrs_if_missing(h, target, attrs) ==
    IF h[target].data.kind # "Element"
    THEN Panic(h)
    ELSE LET existing == h[target].data.attrs
             existing_names == { existing[k].name : k \in 1..Len(existing) }
         IN  Ok([h EXCEPT ![target].data.attrs =
                     existing \o filter_missing(attrs, existing_names)])

AttrNames == {Str_class, Str_id}
AttrValues_xy == {Str_x, Str_y}
Attributes == { Attribute(n, v) : n \in AttrNames, v \in AttrValues_xy }

AttrsArgs == UNION { [1..n -> Attributes] : n \in 0..MaxAttrsLen }

\* A document holding one element, created with any attribute list the
\* tokenizer can hand to create_element (names distinct), and one text node.
InitAttrs ==
    /\ \E attrs \in AttrsArgs :
        /\ \A j, k \in 1..Len(attrs) : attrs[j].name = attrs[k].name => j = k
        /\ heap = <<[data |-> NodeData_Document, parent |-> None, children |-> <<2>>],
                    [data |-> NodeData_Element(Str_div, attrs, None, FALSE),
                     parent |-> 1, children |-> <<3>>],
                    [data |-> NodeData_Text(Str_a), parent |-> 2, children |-> <<>>]>>
    /\ panicked = FALSE
    /\ last = NoCall
    /\ calls = 0
    /\ cache = {}
    /\ args = NoArgs
    /\ result = NoResult

AddAttrsIfMissing ==
    /\ ~panicked
    /\ calls < MaxAttrCalls
    /\ \E target \in Handles(heap), attrs \in AttrsArgs :
        LET r == add_attrs_if_missing(heap, target, attrs)
        IN  /\ heap' = r.heap
            /\ panicked' = r.panic
            /\ calls' = calls + 1
            /\ args' = [op |-> "add_attrs_if_missing", target |-> target,
                        attrs |-> attrs]
            /\ result' = [op |-> "add_attrs_if_missing", input |-> heap]
            /\ UNCHANGED <<last, cache>>

NextAttrs == AddAttrsIfMissing

SpecAttrs == InitAttrs /\ [][NextAttrs]_vars

\* -------------------------------------------------------------------- C18
IsPrefix(s, t) == Len(s) <= Len(t) /\ SubSeq(t, 1, Len(s)) = s

\* C18: after add_attrs_if_missing(element, attrs) returns, the attribute list
\* the element had before the call is a prefix of its list after the call
\* (same names, values and order), and every attribute after that prefix has
\* a name that no attribute of the element had before the call.
C18_ExistingAttrsKept ==
    (args.op = "add_attrs_if_missing" /\ ~panicked) =>
        LET old == result.input[args.target].data.attrs
            new == heap[args.target].data.attrs
        IN  /\ IsPrefix(old, new)
            /\ \A k \in (Len(old) + 1)..Len(new) :
                   \A j \in 1..Len(old) : old[j].name # new[k].name

\* A call that brought one attribute whose name the element had with another
\* value, and one attribute that was appended.
C18_Witness ==
    /\ args.op = "add_attrs_if_missing" /\ ~panicked
    /\ LET old == result.input[args.target].data.attrs
           new == heap[args.target].data.attrs
       IN  /\ \E j \in 1..Len(old), k \in 1..Len(args.attrs) :
                  /\ old[j].name = args.attrs[k].name
                  /\ old[j].value # args.attrs[k].value
           /\ Len(new) > Len(old)

\* ------------------------------------------ SerializableHandle::serialize
MaxSerNodes == 4

\* NodeData::Doctype (the name is all the serializer reads), NodeData::Comment
\* and NodeData::ProcessingInstruction (target in `name`, data in `text`).
NodeData_Doctype(name) ==
    [kind |-> "Doctype", name |-> name, attrs |-> <<>>, text |-> <<>>,
     template_contents |-> None, mathml |-> FALSE]

NodeData_Comment(comment) ==
    [kind |-> "Comment", name |-> <<>>, attrs |-> <<>>, text |-> comment,
     template_contents |-> None, mathml |-> FALSE]

NodeData_ProcessingInstruction(target, data) ==
    [kind |-> "ProcessingInstruction", name |-> target, attrs |-> <<>>, text |-> data,
     template_contents |-> None, mathml |-> FALSE]

\* enum SerializeOp
SerializeOp_Open(handle) == [op |-> "Open", handle |-> handle, name |-> <<>>]
SerializeOp_Close(name) == [op |-> "Close", handle |-> None, name |-> name]

\* The calls made on the Serializer, in order.
start_elem(name, attrs) ==
    [ev |-> "start_elem", name |-> name, attrs |-> attrs, text |-> <<>>]
end_elem(name) ==
    [ev |-> "end_elem", name |-> name, attrs |-> <<>>, text |-> <<>>]
write_doctype(name) ==
    [ev |-> "write_doctype", name |-> name, attrs |-> <<>>, text |-> <<>>]
write_text(text) ==
    [ev |-> "write_text", name |-> <<>>, attrs |-> <<>>, text |-> text]
write_comment(comment) ==
    [ev |-> "write_comment", name |-> <<>>, attrs |-> <<>>, text |-> comment]
write_processing_instruction(target, data) ==
    [ev |-> "write_processing_instruction", name |-> target, attrs |-> <<>>,
     text |-> data]

Reverse(s) == [k \in 1..Len(s) |-> s[Len(s) + 1 - k]]

OpenEach(handles) == [k \in 1..Len(handles) |-> SerializeOp_Open(handles[k])]

\* VecDeque::push_front of each item, in the order the items are iterated.
RECURSIVE push_front_each(_, _)
push_front_each(ops, items) ==
    IF items = <<>> THEN ops
    ELSE push_front_each(<<Head(items)>> \o ops, Tail(items))

\* Mutant: the children are pushed to the front without `.rev()`.
RECURSIVE serialize_loop_without_rev(_, _, _)
serialize_loop_without_rev(h, ops, events) ==
    IF ops = <<>> THEN [events |-> events, panic |-> FALSE]
    ELSE LET op == Head(ops)
             rest == Tail(ops)
         IN  IF op.op = "Close"
             THEN serialize_loop_without_rev(h, rest, Append(events, end_elem(op.name)))
             ELSE LET data == h[op.handle].data
                  IN  CASE data.kind = "Element" ->
                               serialize_loop_without_rev(h,
                                   push_front_each(<<SerializeOp_Close(data.name)>> \o rest,
                                                   OpenEach(h[op.handle].children)),
                                   Append(events, start_elem(data.name, data.attrs)))
                        [] data.kind = "Doctype" ->
                               serialize_loop_without_rev(h, rest,
                                   Append(events, write_doctype(data.name)))
                        [] data.kind = "Text" ->
                               serialize_loop_without_rev(h, rest,
                                   Append(events, write_text(data.text)))
                        [] data.kind = "Comment" ->
                               serialize_loop_without_rev(h, rest,
                                   Append(events, write_comment(data.text)))
                        [] data.kind = "ProcessingInstruction" ->
                               serialize_loop_without_rev(h, rest,
                                   Append(events,
                                          write_processing_instruction(data.name, data.text)))
                        [] OTHER -> [events |-> events, panic |-> TRUE]

\* while let Some(op) = ops.pop_front() { ... }: the events emitted so far
\* and whether the walk met a Document node and panicked.
RECURSIVE serialize_loop(_, _, _)
serialize_loop(h, ops, events) ==
    IF ops = <<>> THEN [events |-> events, panic |-> FALSE]
    ELSE LET op == Head(ops)
             rest == Tail(ops)
         IN  IF op.op = "Close"
             THEN serialize_loop(h, rest, Append(events, end_elem(op.name)))
             ELSE LET data == h[op.handle].data
                  IN  CASE data.kind = "Element" ->
                               serialize_loop(h,
                                   push_front_each(<<SerializeOp_Close(data.name)>> \o rest,
                                                   Reverse(OpenEach(h[op.handle].children))),
                                   Append(events, start_elem(data.name, data.attrs)))
                        [] data.kind = "Doctype" ->
                               serialize_loop(h, rest, Append(events, write_doctype(data.name)))
                        [] data.kind = "Text" ->
                               serialize_loop(h, rest, Append(events, write_text(data.text)))
                        [] data.kind = "Comment" ->
                               serialize_loop(h, rest, Append(events, write_comment(data.text)))
                        [] data.kind = "ProcessingInstruction" ->
                               serialize_loop(h, rest,
                                   Append(events,
                                          write_processing_instruction(data.name, data.text)))
                        [] OTHER -> [events |-> events, panic |-> TRUE]

TraversalScopes == {"IncludeNode", "ChildrenOnly"}

serialize(h, node, traversal_scope) ==
    serialize_loop(h,
                   IF traversal_scope = "IncludeNode"
                   THEN <<SerializeOp_Open(node)>>
                   ELSE OpenEach(h[node].children),
                   <<>>)

Str_x_y == <<"x", " ", "y">>

\* What the nodes of a serialized tree hold.
SerDatas ==
    {NodeData_Document,
     NodeData_Element(Str_div, <<>>, None, FALSE),
     NodeData_Element(Str_p, <<Attribute(Str_class, Str_x)>>, None, FALSE),
     NodeData_Text(Str_a),
     NodeData_Comment(Str_b),
     NodeData_Doctype(Str_html),
     NodeData_ProcessingInstruction(Str_x, Str_x_y)}

\* Only documents and elements are given children by the tree builder.
OnlyContainersHaveChildren(h) ==
    \A i \in 1..Len(h) :
        h[i].data.kind \notin {"Document", "Element"} => h[i].children = <<>>

\* A tree of at most MaxSerNodes nodes, node i > 1 appended to a node made
\* before it, every node holding any of SerDatas.
InitSer ==
    /\ \E n \in 1..MaxSerNodes :
        \E par \in ParentVectors(n), data \in [1..n -> SerDatas] :
            /\ heap = [i \in 1..n |->
                          [data |-> data[i],
                           parent |-> IF i = 1 THEN None ELSE par[i],
                           children |-> HandleSeq({j \in 2..n : par[j] = i})]]
            /\ OnlyContainersHaveChildren(heap)
    /\ panicked = FALSE
    /\ last = NoCall
    /\ calls = 0
    /\ cache = {}
    /\ args = NoArgs
    /\ result = NoResult

Serialize ==
    /\ result = NoResult
    /\ \E node \in Handles(heap), traversal_scope \in TraversalScopes :
        LET r == serialize(heap, node, traversal_scope)
        IN  /\ args' = [op |-> "serialize", node |-> node,
                        traversal_scope |-> traversal_scope]
            /\ result' = [op |-> "serialize", events |-> r.events]
            /\ panicked' = r.panic
            /\ UNCHANGED <<heap, last, calls, cache>>

NextSer == Serialize

SpecSer == InitSer /\ [][NextSer]_vars

\* -------------------------------------------------------------------- C19
RECURSIVE Flatten(_)
Flatten(ss) == IF ss = <<>> THEN <<>> ELSE Head(ss) \o Flatten(Tail(ss))

\* The recursive reference walk: an element is its open tag, the walks of
\* its children in child-list order, its close tag; a text, doctype, comment
\* or processing instruction is one event with its content.
RECURSIVE ReferenceWalk(_, _)
ReferenceWalk(h, n) ==
    LET data == h[n].data
    IN  CASE data.kind = "Element" ->
                 <<start_elem(data.name, data.attrs)>>
                 \o Flatten([k \in 1..Len(h[n].children) |->
                                 ReferenceWalk(h, h[n].children[k])])
                 \o <<end_elem(data.name)>>
          [] data.kind = "Text" -> <<write_text(data.text)>>
          [] data.kind = "Doctype" -> <<write_doctype(data.name)>>
          [] data.kind = "Comment" -> <<write_comment(data.text)>>
          [] data.kind = "ProcessingInstruction" ->
                 <<write_processing_instruction(data.name, data.text)>>
          [] OTHER -> <<>>

ReferenceEvents(h, node, traversal_scope) ==
    IF traversal_scope = "IncludeNode"
    THEN ReferenceWalk(h, node)
    ELSE Flatten([k \in 1..Len(h[node].children) |->
                      ReferenceWalk(h, h[node].children[k])])

\* Every end_elem closes the innermost element still open, and none is left
\* open at the end.
RECURSIVE Nested(_, _)
Nested(events, open) ==
    IF events = <<>> THEN open = <<>>
    ELSE LET e == Head(events)
         IN  CASE e.ev = "start_elem" -> Nested(Tail(events), <<e.name>> \o open)
               [] e.ev = "end_elem" ->
                      /\ open # <<>>
                      /\ Head(open) = e.name
                      /\ Nested(Tail(events), Tail(open))
               [] OTHER -> Nested(Tail(events), open)

\* C19: a serialize call that returns has emitted exactly the events of the
\* recursive reference walk over the serialized nodes (the node itself, or
\* its children in order), and its open and close events are properly nested.
C19_SerializeMatchesReferenceWalk ==
    (result.op = "serialize" /\ ~panicked) =>
        /\ result.events = ReferenceEvents(heap, args.node, args.traversal_scope)
        /\ Nested(result.events, <<>>)

\* A returned walk over an element that has an element child with a child of
\* its own, followed by a sibling.
C19_Witness ==
    /\ result.op = "serialize" /\ ~panicked
    /\ args.traversal_scope = "IncludeNode"
    /\ heap[args.node].data.kind = "Element"
    /\ Len(heap[args.node].children) = 2
    /\ LET c == heap[args.node].children[1]
       IN  /\ heap[c].data.kind = "Element"
           /\ heap[c].data.name # heap[args.node].data.name
           /\ Len(heap[c].children) = 1
    /\ Len(result.events) = 6

\* A returned walk of the children of a document, as serialize_to_string
\* makes it.
C19_WitnessChildrenOnly ==
    /\ result.op = "serialize" /\ ~panicked
    /\ args.traversal_scope = "ChildrenOnly"
    /\ heap[args.node].data.kind = "Document"
    /\ Len(heap[args.node].children) = 2
    /\ Len(result.events) = 4

\* -------------------------------------------------------------------- C20
\* The step is a build(tree, text) call that reached its get_text(tree).
BuildCalled(tree, text) ==
    /\ text # <<>>
    /\ args' = [op |-> "build", tree |-> tree, text |-> text]
    /\ cache' = build(heap, cache, tree, text).cache

\* With cache c, get_text answers for n with the buffer of a text node and
\* with the space-join of its answers for n's children for any other node.
GetTextIsTextOfOwnChildren(h, c, n) ==
    get_text(h, c, n).text =
        IF h[n].data.kind = "Text" THEN h[n].data.text
        ELSE join_space([k \in 1..Len(h[n].children) |->
                            get_text(h, c, h[n].children[k]).text])

\* C20: in a build(tree, text) call, once get_text(tree) has run, get_text
\* returns for every node of the tree its buffer if it is a text node and
\* otherwise the space-join of get_text of its own children in order, also
\* when distinct nodes of the tree have the same kind, tag and attributes.
C20_GetTextOfOwnChildren ==
    [][\A tree \in Handles(heap), text \in BuildTexts :
           BuildCalled(tree, text) =>
               \A n \in {tree} \cup Descendants(heap, tree) :
                   GetTextIsTextOfOwnChildren(heap, get_text(heap, cache, tree).cache, n)]_vars

\* -------------------------------------------------------------------- C21
NoNodeTwice(nodes) ==
    \A j, k \in 1..Len(nodes) : nodes[j] = nodes[k] => j = k

NoNodeWithDescendant(h, nodes) ==
    \A j, k \in 1..Len(nodes) : nodes[k] \notin Descendants(h, nodes[j])

\* C21: the list a build call returns never holds the same node twice and
\* never holds both a node and one of its proper descendants (a node replaces
\* its selected children exactly when all its own children were selected).
C21_BuildListIndependent ==
    (result.op = "build" /\ result.some) =>
        /\ NoNodeTwice(result.nodes)
        /\ NoNodeWithDescendant(heap, result.nodes)

\* -------------------------------------------------------------------- C22
\* Not empty, no space at either end, no two spaces in a row, and none of
\* tab, newline, carriage return, non-breaking space.
IsNormalized(text) ==
    /\ text # <<>>
    /\ text[1] # " "
    /\ text[Len(text)] # " "
    /\ \A k \in 1..(Len(text) - 1) : ~(text[k] = " " /\ text[k + 1] = " ")
    /\ \A k \in 1..Len(text) : text[k] \notin {"\t", "\n", "\r", NBSP}

\* C22: in every tree preprocess_node returns, no element is childless, every
\* text node is non-empty and normalized, and no two adjacent siblings are
\* both text nodes.
C22_OutputWellFormed ==
    result.op = "preprocess_node" =>
        \A n \in OutputNodes :
            /\ heap[n].data.kind = "Element" => heap[n].children # <<>>
            /\ heap[n].data.kind = "Text" => IsNormalized(heap[n].data.text)
            /\ \A k \in 1..(Len(heap[n].children) - 1) :
                   ~(/\ heap[heap[n].children[k]].data.kind = "Text"
                     /\ heap[heap[n].children[k + 1]].data.kind = "Text")

\* The first pass returned a tree for an input that held a kept element
\* without children and two adjacent text siblings, one of them to be cleaned.
C22_Witness ==
    /\ result.op = "preprocess_node" /\ result.pass = 1
    /\ result.ret # None
    /\ \E n \in KeptInput :
           /\ result.input[n].data.kind = "Element"
           /\ result.input[n].children = <<>>
    /\ \E n \in KeptInput :
           \E k \in 1..(Len(result.input[n].children) - 1) :
               /\ result.input[result.input[n].children[k]].data = NodeData_Text(Str_a)
               /\ result.input[result.input[n].children[k + 1]].data =
                      NodeData_Text(Str_messy)
    /\ \E n \in OutputNodes : heap[n].data.text = <<"a", " ", "b", " ", "b">>

\* -------------------------------------------------------------------- C23
\* The children of n in h for which preprocess_node returns a node.
Survivors(h, config, n) ==
    SelectSeq(h[n].children, LAMBDA c : preprocess_node(h, config, c).ret # None)

\* What preprocess_node makes of n in h, as a value.
ProcessedValue(h, config, n) ==
    LET r == preprocess_node(h, config, n) IN TreeValue(r.heap, r.ret)

\* The root of the input is a kept element of which exactly one child
\* survives, as an element with the root's tag name.
RootCollapses ==
    /\ result.input[1].data.kind = "Element"
    /\ ~is_removed(args.config, result.input[1].data)
    /\ LET s == Survivors(result.input, args.config, 1)
       IN  /\ Len(s) = 1
           /\ ProcessedValue(result.input, args.config, s[1]).data.kind = "Element"
           /\ ProcessedValue(result.input, args.config, s[1]).data.name =
                  result.input[1].data.name

\* C23: when exactly one child of an element survives processing and it is an
\* element with the same tag name, preprocess_node returns a copy of that
\* processed child (its data, attributes and subtree) and not the element;
\* and no element of a returned tree has exactly one child that is an element
\* with its own tag name.
C23_SingleChildTagCollapse ==
    /\ (result.op = "preprocess_node" /\ result.pass = 1 /\ RootCollapses) =>
           /\ result.ret \notin {None, 1}
           /\ result.ret \notin Handles(result.input)
           /\ TreeValue(heap, result.ret) =
                  ProcessedValue(result.input, args.config,
                                 Survivors(result.input, args.config, 1)[1])
    /\ result.op = "preprocess_node" =>
           \A n \in OutputNodes :
               ~(/\ heap[n].data.kind = "Element"
                 /\ Len(heap[n].children) = 1
                 /\ heap[heap[n].children[1]].data.kind = "Element"
                 /\ heap[heap[n].children[1]].data.name = heap[n].data.name)

\* A div whose children are a removed element and a div holding text came
\* back as that inner div.
C23_Witness ==
    /\ result.op = "preprocess_node" /\ result.pass = 1
    /\ RootCollapses
    /\ Len(result.input[1].children) = 2
    /\ result.ret # None
    /\ heap[result.ret].data.name = Str_div
    /\ Len(heap[result.ret].children) = 1
    /\ heap[heap[result.ret].children[1]].data.kind = "Text"

\* -------------------------------------------------------------------- C24
\* The texts that the surviving children of n are processed to, in order;
\* meaningful when every survivor is processed to a text node.
SurvivorTexts(h, config, n) ==
    LET s == Survivors(h, config, n)
    IN  [k \in 1..Len(s) |-> ProcessedValue(h, config, s[k]).data.text]

\* Node n of the input is kept, some child of it survives, and every
\* survivor is processed to a text node.
HoldsOnlyText(n) ==
    /\ ~is_removed(args.config, result.input[n].data)
    /\ LET s == Survivors(result.input, args.config, n)
       IN  /\ s # <<>>
           /\ \A k \in 1..Len(s) :
                  ProcessedValue(result.input, args.config, s[k]).data.kind = "Text"

JoinedSurvivorText(n) ==
    preprocess_text(join_space(SurvivorTexts(result.input, args.config, n)))

\* C24: an element with an inline tag whose surviving children are all text
\* is processed to one text node holding their joined, normalized text; in a
\* parent that is not inline that text is merged with the adjacent texts
\* into a single text child; and no element with an inline tag whose children
\* are all text occurs in a returned tree.
C24_InlineFlattening ==
    /\ (result.op = "preprocess_node" /\ result.pass = 1) =>
           /\ \A n \in Handles(result.input) :
                  (/\ result.input[n].data.kind = "Element"
                   /\ result.input[n].data.name \in INLINE_TAGS
                   /\ HoldsOnlyText(n)) =>
                      ProcessedValue(result.input, args.config, n) =
                          [data |-> NodeData_Text(JoinedSurvivorText(n)),
                           children |-> <<>>]
           /\ (HoldsOnlyText(1) /\ result.input[1].data.name \notin INLINE_TAGS) =>
                  /\ result.ret # None
                  /\ heap[result.ret].data = result.input[1].data
                  /\ Len(heap[result.ret].children) = 1
                  /\ heap[heap[result.ret].children[1]].data =
                         NodeData_Text(JoinedSurvivorText(1))
    /\ result.op = "preprocess_node" =>
           \A n \in OutputNodes :
               ~(/\ heap[n].data.kind = "Element"
                 /\ heap[n].data.name \in INLINE_TAGS
                 /\ \A k \in 1..Len(heap[n].children) :
                        heap[heap[n].children[k]].data.kind = "Text")

\* A div holding a text and then a b element with text came back holding
\* the single text "a b b".
C24_Witness ==
    /\ result.op = "preprocess_node" /\ result.pass = 1
    /\ HoldsOnlyText(1)
    /\ Len(result.input[1].children) = 2
    /\ result.input[result.input[1].children[1]].data = NodeData_Text(Str_a)
    /\ result.input[result.input[1].children[2]].data.name = Str_b
    /\ result.ret = 1
    /\ Len(heap[1].children) = 1
    /\ heap[heap[1].children[1]].data.text = <<"a", " ", "b", " ", "b">>

\* -------------------------------------------------------------------- C25
\* The searched tree holds elements a_1, .., a_(k-1), a_i matching segment i,
\* each a proper ancestor of the next and the last a proper ancestor of n.
HasAncestorChain(h, tree, segments, n) ==
    LET k == Len(segments)
    IN  \E a \in [1..(k - 1) -> {tree} \cup Descendants(h, tree)] :
            /\ \A i \in 1..(k - 1) : matches_segment(h, a[i], segments[i])
            /\ \A i \in 1..(k - 2) : a[i + 1] \in Descendants(h, a[i])
            /\ k > 1 => n \in Descendants(h, a[k - 1])

\* C25: for a selector with segments s1..sk, a node is in select(tree,
\* selector) if and only if it is a node of the searched tree matching sk
\* and the tree, root included, holds a1..a(k-1), ai matching si, a1 a
\* proper ancestor of a2, .., a(k-1) a proper ancestor of the node; the
\* ancestors need not be direct parents.
C25_SelectIffAncestorChain ==
    result.op = "select" =>
        LET segments == parse_selector_impl(args.selector)
        IN  segments # <<>> =>
                \A n \in Handles(heap) :
                    SeqContains(result.nodes, n) <=>
                        /\ n \in {args.tree} \cup Descendants(heap, args.tree)
                        /\ matches_segment(heap, n, segments[Len(segments)])
                        /\ HasAncestorChain(heap, args.tree, segments, n)

\* "div div p" has returned a p whose second div is not a child of the
\* first: a span lies between them.
C25_Witness ==
    /\ result.op = "select"
    /\ args.selector = Sel_div_div_p
    /\ args.tree = 1
    /\ result.nodes # <<>>
    /\ \E s \in Handles(heap) :
           /\ heap[s].data.name = Str_span
           /\ heap[s].parent = 1
           /\ heap[result.nodes[1]].parent \in Descendants(heap, s)

\* -------------------------------------------------------------------- C26
\* The node is an element; the segment names no element or the node's tag;
\* names no id or the node has an id attribute equal to it; lists no classes
\* or the node has a class attribute whose tokens include every listed class.
SegmentHolds(h, n, segment) ==
    LET attrs == h[n].data.attrs
    IN  /\ h[n].data.kind = "Element"
        /\ ~segment.element.some \/ h[n].data.name = segment.element.value
        /\ \/ ~segment.id.some
           \/ \E k \in 1..Len(attrs) :
                  attrs[k].name = Str_id /\ attrs[k].value = segment.id.value
        /\ \/ segment.classes = <<>>
           \/ \E k \in 1..Len(attrs) :
                  /\ attrs[k].name = Str_class
                  /\ \A c \in 1..Len(segment.classes) :
                         SeqContains(split_whitespace(attrs[k].value), segment.classes[c])

\* C26: a node matches a selector segment if and only if it is an element,
\* the segment names no element or the node's tag, names no id or the node
\* has an id attribute equal to it, and lists no classes or the node has a
\* class attribute whose whitespace-separated tokens include every listed
\* class; so a one-segment selector selects exactly the nodes of the searched
\* tree for which this holds.
C26_MatchesSegmentIff ==
    result.op = "select" =>
        LET segments == parse_selector_impl(args.selector)
        IN  /\ \A k \in 1..Len(segments), n \in Handles(heap) :
                   matches_segment(heap, n, segments[k])
                       <=> SegmentHolds(heap, n, segments[k])
            /\ Len(segments) = 1 =>
                   {result.nodes[k] : k \in 1..Len(result.nodes)} =
                       {n \in {args.tree} \cup Descendants(heap, args.tree) :
                           SegmentHolds(heap, n, segments[1])}

\* ------------------------------------------------ parse_selector machine
MaxSelectorLen == 5

Sel_combined ==
    <<"d", "i", "v", ".", "t", "e", "s", "t", "1", ".", "t", "e", "s", "t", "2",
      "#", "m", "y", "i", "d">>

SelectorAlphabet == {"a", "b", ".", "#", " "}

\* A selector string yet to be parsed: the one of test_selector_combined, or
\* any string of up to MaxSelectorLen characters of the alphabet.
InitParse ==
    /\ heap = <<Node_new(NodeData_Document)>>
    /\ panicked = FALSE
    /\ last = NoCall
    /\ calls = 0
    /\ cache = {}
    /\ \E selector \in {Sel_combined} \cup StringsUpTo(SelectorAlphabet, MaxSelectorLen) :
           args = [op |-> "parse_selector", selector |-> selector]
    /\ result = NoResult

ParseSelector ==
    /\ result = NoResult
    /\ result' = [op |-> "parse_selector",
                  segments |-> parse_selector_impl(args.selector)]
    /\ UNCHANGED <<heap, panicked, last, calls, cache, args>>

NextParse == ParseSelector

SpecParse == InitParse /\ [][NextParse]_vars

\* -------------------------------------------------------------------- C27
\* The positions of the `.` and `#` characters of a unit.
Markers(unit) == {p \in 1..Len(unit) : unit[p] \in {".", "#"}}

\* The token a marker introduces: the text up to the next marker or the end.
TokenAfter(unit, p) ==
    LET later == {q \in Markers(unit) : q > p}
        stop == IF later = {} THEN Len(unit) + 1
                ELSE CHOOSE q \in later : \A r \in later : q <= r
    IN  SubSeq(unit, p + 1, stop - 1)

\* The markers of one kind that introduce a non-empty token, in order.
FilledMarkers(unit, mark) ==
    HandleSeq({p \in Markers(unit) : unit[p] = mark /\ TokenAfter(unit, p) # <<>>})

\* The segment the statement gives for one whitespace-separated unit.
StatedSegment(unit) ==
    LET classes == FilledMarkers(unit, ".")
        ids == FilledMarkers(unit, "#")
    IN  SelectorSegment(
            IF TokenAfter(unit, 0) # <<>> THEN SomeStr(TokenAfter(unit, 0)) ELSE NoneStr,
            [k \in 1..Len(classes) |-> TokenAfter(unit, classes[k])],
            IF ids = <<>> THEN NoneStr ELSE SomeStr(TokenAfter(unit, ids[Len(ids)])))

\* C27: parsing a selector yields one segment per whitespace-separated unit,
\* in order; in a unit the text before the first `.` or `#`, if non-empty, is
\* the element name, the non-empty tokens introduced by `.` are the classes,
\* in order and with duplicates, and the id is the non-empty token introduced
\* by `#`, the last of them if there are several; div.test1.test2#myid gives
\* element div, classes [test1, test2], id myid.
C27_ParseSelector ==
    result.op = "parse_selector" =>
        LET units == split_whitespace(args.selector)
        IN  /\ result.segments = [k \in 1..Len(units) |-> StatedSegment(units[k])]
            /\ args.selector = Sel_combined =>
                   result.segments =
                       <<SelectorSegment(SomeStr(Str_div),
                                         <<<<"t", "e", "s", "t", "1">>,
                                           <<"t", "e", "s", "t", "2">>>>,
                                         SomeStr(<<"m", "y", "i", "d">>))>>

\* -------------------------------------------------------------------- C28
\* Every entry of a child list names its owner as parent, and every node
\* with a parent is in that parent's child list.
ParentChildConsistent(h) ==
    /\ \A p \in Handles(h) : \A k \in 1..Len(h[p].children) :
           h[h[p].children[k]].parent = p
    /\ \A n \in Handles(h) :
           h[n].parent # None => SeqContains(h[h[n].parent].children, n)

\* The topmost ancestor of n.
RECURSIVE RootOf(_, _)
RootOf(h, n) == IF h[n].parent = None THEN n ELSE RootOf(h, h[n].parent)

\* No `.`, `#` or whitespace in the string, and the string is not empty.
IsPlainName(s) ==
    /\ s # <<>>
    /\ \A k \in 1..Len(s) : s[k] \notin {".", "#"} /\ ~IsWhitespace(s[k])

\* Tags, class tokens and id values of every element are plain names.
NamesArePlain(h) ==
    \A n \in Handles(h) :
        h[n].data.kind = "Element" =>
            /\ IsPlainName(h[n].data.name)
            /\ \A k \in 1..Len(h[n].data.attrs) :
                   LET attr == h[n].data.attrs[k]
                   IN  /\ attr.name = Str_id => IsPlainName(attr.value)
                       /\ attr.name = Str_class =>
                              \A t \in 1..Len(split_whitespace(attr.value)) :
                                  IsPlainName(split_whitespace(attr.value)[t])

\* C28: for every element n of a parent/child-consistent tree with root r
\* whose tags, class tokens and id values are non-empty and hold no `.`, `#`
\* or whitespace, select(r, get_selector(n)) contains n.
C28_GetSelectorSelectRoundTrip ==
    (/\ result.op = "get_selector"
     /\ result.input[args.node].data.kind = "Element"
     /\ ParentChildConsistent(result.input)
     /\ NamesArePlain(result.input)) =>
        /\ result.ret.some
        /\ SeqContains(select(heap, RootOf(result.input, args.node), result.ret.value),
                       args.node)

\* ---------------------------------------------------- impl Drop for Node
MaxDropNodes == 4

\* while let Some(node) = nodes.pop(): the children of the popped node are
\* taken out of it and queued, whoever else holds the node; the popped
\* handle is then released, which destroys the node unless a live handle in
\* `held` keeps it.
RECURSIVE drop_loop(_, _, _, _)
drop_loop(h, nodes, held, destroyed) ==
    IF nodes = <<>> THEN [heap |-> h, destroyed |-> destroyed]
    ELSE LET node == nodes[Len(nodes)]
             rest == SubSeq(nodes, 1, Len(nodes) - 1)
         IN  drop_loop([h EXCEPT ![node].children = <<>>],
                       rest \o h[node].children, held,
                       IF node \in held THEN destroyed ELSE destroyed \cup {node})

\* Node::drop, run when the last owning reference to `self` is released.
Node_drop(h, self, held) ==
    drop_loop([h EXCEPT ![self].children = <<>>], h[self].children, held, {self})

\* What the nodes below the root of a dropped tree hold.
DropDatas == {NodeData_Element(Str_p, <<>>, None, FALSE), NodeData_Text(Str_a)}

\* A tree whose root and any of its other nodes are held by a local handle.
InitDrop ==
    /\ HeapIsTree(DropDatas, MaxDropNodes)
    /\ panicked = FALSE
    /\ last = NoCall
    /\ calls = 0
    /\ cache = {}
    /\ \E held \in SUBSET Handles(heap) :
           /\ 1 \in held
           /\ args = [op |-> "handles", held |-> held]
    /\ result = [op |-> "none", input |-> heap, destroyed |-> {}]

\* The child slots of the nodes not destroyed that own n.
IsOwnedByParent(h, destroyed, n) ==
    \E p \in Handles(h) \ destroyed : SeqContains(h[p].children, n)

\* A local handle goes out of scope; if it was the last owning reference to
\* its node, the node is dropped.
ReleaseHandle ==
    \E n \in args.held :
        LET held == args.held \ {n}
            r == IF IsOwnedByParent(heap, result.destroyed, n)
                 THEN [heap |-> heap, destroyed |-> {}]
                 ELSE Node_drop(heap, n, held)
        IN  /\ heap' = r.heap
            /\ args' = [op |-> "handles", held |-> held]
            /\ result' = [op |-> "release", input |-> heap,
                          destroyed |-> result.destroyed \cup r.destroyed]
            /\ UNCHANGED <<panicked, last, calls, cache>>

NextDrop == ReleaseHandle

SpecDrop == InitDrop /\ [][NextDrop]_vars

\* -------------------------------------------------------------------- C29
\* C29: a node still held by a live handle is neither destroyed nor altered
\* when a handle is released and an ancestor of it is destroyed: it has the
\* child list it had before, and so has every node of the subtree below it.
C29_HeldNodeKeepsItsSubtree ==
    result.op = "release" =>
        \A n \in args.held :
            /\ n \notin result.destroyed
            /\ \A m \in {n} \cup Descendants(result.input, n) :
                   /\ m \notin result.destroyed
                   /\ heap[m].children = result.input[m].children

\* -------------------------------------------------------------------- C30
NamesUnique(attrs) ==
    \A j, k \in 1..Len(attrs) : attrs[j].name = attrs[k].name => j = k

\* C30: if no two attributes of the element share a name before an
\* add_attrs_if_missing call, no two share a name after it, whatever the
\* incoming list, one that repeats a name not yet on the element included.
C30_AttrNamesStayUnique ==
    (/\ args.op = "add_attrs_if_missing"
     /\ ~panicked
     /\ NamesUnique(result.input[args.target].data.attrs)) =>
        NamesUnique(heap[args.target].data.attrs)

====
